---- MODULE Spec2Model ----
(***************************************************************************)
(* Schema introspection and field classification engine of                 *)
(* src/lib/utils/database.js.                                              *)
(*                                                                         *)
(* The classification functions are pure: the state of the model is one    *)
(* invocation (`call`: the function and its arguments, `pc`: called or     *)
(* returned, `result`: the value returned).  The arguments are drawn from  *)
(* bounded sets and one action per exported function applies it as the     *)
(* source computes it.  JavaScript strings are TLA+ strings, taken apart   *)
(* with Len, SubSeq and \o.                                                *)
(*                                                                         *)
(* getDatabaseSchema and getEnhancedSchema are asynchronous: a call runs   *)
(* against a fixed catalog, `pc` is the await the call stands at, `frames` *)
(* holds the getDatabaseSchema invocations it has started (the base read   *)
(* and the reads of referenced tables), `tableSchema` the schema object    *)
(* getEnhancedSchema builds up, `enhanced` the promises of the per-column  *)
(* callbacks of Promise.all and `rejected` the queries the database has    *)
(* rejected.                                                               *)
(***************************************************************************)
EXTENDS Integers, Sequences, FiniteSets, TLC

VARIABLES call, pc, result, frames, tableSchema, enhanced, rejected

vars == <<call, pc, result, frames, tableSchema, enhanced, rejected>>

(***************************************************************************)
(* Bounds of the model.                                                    *)
(***************************************************************************)
\* longest literal list of a generated check clause
MaxLits == 2
\* longest constraintValues / enum_values list handed to createConstraintMetadata
MaxValues == 2
\* longest list of single-field unique constraints, of composite unique
\* constraints, of inbound references and of business rules of one table
MaxConstraints == 2
\* columns of a table handed to detectBusinessRules
MaxColumns == 2

(***************************************************************************)
(* Constants of the source.                                                *)
(***************************************************************************)
\* availableFields.slice(0, 3)
DisplayFieldLimit == 3

(***************************************************************************)
(* JavaScript string primitives.                                           *)
(***************************************************************************)
UpperChars == "ABCDEFGHIJKLMNOPQRSTUVWXYZ"
LowerChars == "abcdefghijklmnopqrstuvwxyz"
DigitChars == "0123456789"

CharAt(s, i) == IF i >= 1 /\ i <= Len(s) THEN SubSeq(s, i, i) ELSE ""

\* position of the one-character string c in alphabet, 0 when absent
AlphaIndex(alphabet, c) ==
  IF \E i \in 1..Len(alphabet) : SubSeq(alphabet, i, i) = c
  THEN CHOOSE i \in 1..Len(alphabet) : SubSeq(alphabet, i, i) = c
  ELSE 0

LowerChar(c) ==
  IF AlphaIndex(UpperChars, c) = 0 THEN c
  ELSE CharAt(LowerChars, AlphaIndex(UpperChars, c))

UpperChar(c) ==
  IF AlphaIndex(LowerChars, c) = 0 THEN c
  ELSE CharAt(UpperChars, AlphaIndex(LowerChars, c))

RECURSIVE toLowerCase(_)
toLowerCase(s) ==
  IF s = "" THEN "" ELSE LowerChar(Head(s)) \o toLowerCase(Tail(s))

RECURSIVE toUpperCase(_)
toUpperCase(s) ==
  IF s = "" THEN "" ELSE UpperChar(Head(s)) \o toUpperCase(Tail(s))

\* String.prototype.includes
includes(s, p) ==
  \E i \in 1..(Len(s) - Len(p) + 1) : SubSeq(s, i, i + Len(p) - 1) = p

\* Array.prototype.includes on a sequence
arrayIncludes(arr, x) == \E i \in 1..Len(arr) : arr[i] = x

\* \s of a regular expression (the clauses of the model use the space only)
IsSpace(c) == c = " "

\* \w of a regular expression
IsWord(c) ==
  \/ AlphaIndex(UpperChars, c) > 0
  \/ AlphaIndex(LowerChars, c) > 0
  \/ AlphaIndex(DigitChars, c) > 0
  \/ c = "_"

(***************************************************************************)
(* Object literals used as lookup tables: sequences of <<key, value>> in  *)
(* source order (Object.entries order).                                    *)
(***************************************************************************)
HasKey(tbl, k) == \E i \in 1..Len(tbl) : tbl[i][1] = k

Get(tbl, k) == tbl[CHOOSE i \in 1..Len(tbl) : tbl[i][1] = k][2]

\* names every object literal inherits from Object.prototype: obj[name] is a
\* truthy value (a function) although name is no key of the literal
ObjectPrototypeNames ==
  {"constructor", "toString", "valueOf", "hasOwnProperty",
   "isPrototypeOf", "propertyIsEnumerable", "toLocaleString"}

FIELD_FILTERING_STRATEGIES ==
  << <<"date",        [category |-> "date",     filters |-> <<"equals", "range">>, format |-> "date"]>>,
     <<"timestamp",   [category |-> "datetime", filters |-> <<"equals", "range">>, format |-> "date-time"]>>,
     <<"timestamptz", [category |-> "datetime", filters |-> <<"equals", "range">>, format |-> "date-time"]>>,
     <<"time",        [category |-> "time",     filters |-> <<"equals", "range">>, format |-> "time"]>>,
     <<"number",      [category |-> "numeric",  filters |-> <<"equals", "range", "in_array">>]>>,
     <<"decimal",     [category |-> "numeric",  filters |-> <<"equals", "range">>]>>,
     <<"bigint",      [category |-> "numeric",  filters |-> <<"equals", "range", "in_array">>]>>,
     <<"varchar",     [category |-> "string",   filters |-> <<"equals", "contains", "starts_with", "ends_with">>]>>,
     <<"char",        [category |-> "string",   filters |-> <<"equals", "contains">>]>>,
     <<"textarea",    [category |-> "text",     filters |-> <<"contains", "fulltext">>]>>,
     <<"boolean",     [category |-> "boolean",  filters |-> <<"equals", "null_check">>]>>,
     <<"uuid",        [category |-> "uuid",     filters |-> <<"equals", "in_array", "null_check">>]>>,
     <<"enum-select", [category |-> "enum",     filters |-> <<"equals", "in_array", "not_in_array">>]>>,
     <<"foreign-key-dropdown",
                      [category |-> "foreign_key", filters |-> <<"equals", "in_array", "null_check">>]>> >>

POSTGRES_TYPE_MAPPING ==
  << <<"smallint", "number">>, <<"integer", "number">>, <<"bigint", "bigint">>,
     <<"decimal", "decimal">>, <<"numeric", "decimal">>, <<"real", "float">>,
     <<"double precision", "float">>, <<"serial", "serial">>,
     <<"bigserial", "serial">>, <<"smallserial", "serial">>,
     <<"character varying", "varchar">>, <<"varchar", "varchar">>,
     <<"character", "char">>, <<"char", "char">>, <<"text", "textarea">>,
     <<"timestamp without time zone", "timestamp">>,
     <<"timestamp with time zone", "timestamptz">>,
     <<"timestamp", "timestamp">>, <<"timestamptz", "timestamptz">>,
     <<"date", "date">>, <<"time without time zone", "time">>,
     <<"time with time zone", "timetz">>, <<"time", "time">>,
     <<"interval", "interval">>,
     <<"boolean", "boolean">>, <<"bool", "boolean">>,
     <<"bytea", "binary">>,
     <<"json", "json">>, <<"jsonb", "jsonb">>,
     <<"uuid", "uuid">>,
     <<"inet", "inet">>, <<"cidr", "cidr">>, <<"macaddr", "macaddr">>,
     <<"macaddr8", "macaddr">>,
     <<"bit", "bit">>, <<"bit varying", "varbit">>,
     <<"point", "point">>, <<"line", "line">>, <<"lseg", "lseg">>,
     <<"box", "box">>, <<"path", "path">>, <<"polygon", "polygon">>,
     <<"circle", "circle">>,
     <<"xml", "xml">>,
     <<"USER-DEFINED", "enum">> >>

FIELD_NAME_PATTERNS ==
  << <<"email",      <<"email", "e_mail", "mail">> >>,
     <<"password",   <<"password", "passwd", "pwd", "pass">> >>,
     <<"url",        <<"url", "link", "website", "homepage">> >>,
     <<"phone",      <<"phone", "tel", "telephone", "mobile", "cell">> >>,
     <<"color",      <<"color", "colour">> >>,
     <<"textarea",   <<"description", "content", "body", "message", "notes",
                       "comment", "text", "bio">> >>,
     <<"slug",       <<"slug", "handle">> >>,
     <<"search",     <<"search", "query">> >>,
     <<"file",       <<"file", "attachment", "upload">> >>,
     <<"image",      <<"image", "img", "photo", "picture", "avatar">> >>,
     <<"currency",   <<"price", "cost", "amount", "fee", "salary">> >>,
     <<"percentage", <<"percent", "rate", "ratio">> >> >>

\* the value of an optional string attribute (column.udt_name?.toLowerCase() || '')
LowerOrEmpty(column, attr) ==
  IF attr \in DOMAIN column THEN toLowerCase(column[attr]) ELSE ""

(***************************************************************************)
(* getFieldTypeFromName: the first pattern set (in table order) one of     *)
(* whose keywords the lower-cased name contains; "" stands for null.       *)
(***************************************************************************)
NameMatches(colName, i) ==
  \E j \in 1..Len(FIELD_NAME_PATTERNS[i][2]) :
     includes(colName, FIELD_NAME_PATTERNS[i][2][j])

\* a variant that takes the last pattern set that matches
getFieldTypeFromNameLastMatch(columnName) ==
  LET colName == toLowerCase(columnName)
      hits == {i \in 1..Len(FIELD_NAME_PATTERNS) : NameMatches(colName, i)}
  IN IF hits = {} THEN ""
     ELSE FIELD_NAME_PATTERNS[CHOOSE i \in hits : \A j \in hits : i >= j][1]

getFieldTypeFromName(columnName) ==
  LET colName == toLowerCase(columnName)
      hits == {i \in 1..Len(FIELD_NAME_PATTERNS) : NameMatches(colName, i)}
  IN IF hits = {} THEN ""
     ELSE FIELD_NAME_PATTERNS[CHOOSE i \in hits : \A j \in hits : i <= j][1]

(***************************************************************************)
(* determineFieldType(column, isForeignKey, isEnum)                        *)
(***************************************************************************)
TypeTableDecision(colName, dataType, udtName) ==
  LET fieldType == Get(POSTGRES_TYPE_MAPPING, dataType)
      nameBasedType == getFieldTypeFromName(colName)
  IN IF includes(dataType, "[]") \/ includes(udtName, "_") THEN "array"
     ELSE IF /\ fieldType \in {"varchar", "char", "textarea"}
             /\ nameBasedType # ""
             /\ nameBasedType # "text"
          THEN nameBasedType
     ELSE fieldType

FallbackDecision(colName, dataType, udtName) ==
  IF udtName # "" /\ HasKey(POSTGRES_TYPE_MAPPING, udtName)
    THEN Get(POSTGRES_TYPE_MAPPING, udtName)
  ELSE IF getFieldTypeFromName(colName) # ""
    THEN getFieldTypeFromName(colName)
  ELSE IF dataType \in {"timestamp without time zone",
                        "timestamp with time zone", "date"}
    THEN "datetime"
  ELSE IF dataType \in {"integer", "bigint", "smallint", "decimal", "numeric",
                        "real", "double precision"}
    THEN "number"
  ELSE "text"

determineFieldTypeAuditAfterForeignKey(column, isForeignKey, isEnum) ==
  LET colName == toLowerCase(column.column_name)
      dataType == toLowerCase(column.data_type)
      udtName == LowerOrEmpty(column, "udt_name")
  IN IF colName = "id" THEN "primary-key"
     ELSE IF isForeignKey THEN "foreign-key-dropdown"
     ELSE IF colName \in {"created_at", "updated_at", "deleted_at"}
       THEN "audit-timestamp"
     ELSE IF colName \in {"created_by", "updated_by", "deleted_by"}
       THEN "audit-user"
     ELSE IF isEnum THEN "enum-select"
     ELSE IF HasKey(POSTGRES_TYPE_MAPPING, dataType)
       THEN TypeTableDecision(colName, dataType, udtName)
     ELSE FallbackDecision(colName, dataType, udtName)

determineFieldTypeEnumBeforeForeignKey(column, isForeignKey, isEnum) ==
  LET colName == toLowerCase(column.column_name)
      dataType == toLowerCase(column.data_type)
      udtName == LowerOrEmpty(column, "udt_name")
  IN IF colName = "id" THEN "primary-key"
     ELSE IF colName \in {"created_at", "updated_at", "deleted_at"}
       THEN "audit-timestamp"
     ELSE IF colName \in {"created_by", "updated_by", "deleted_by"}
       THEN "audit-user"
     ELSE IF isEnum THEN "enum-select"
     ELSE IF isForeignKey THEN "foreign-key-dropdown"
     ELSE IF HasKey(POSTGRES_TYPE_MAPPING, dataType)
       THEN TypeTableDecision(colName, dataType, udtName)
     ELSE FallbackDecision(colName, dataType, udtName)

determineFieldType(column, isForeignKey, isEnum) ==
  LET colName == toLowerCase(column.column_name)
      dataType == toLowerCase(column.data_type)
      udtName == LowerOrEmpty(column, "udt_name")
  IN IF colName = "id" THEN "primary-key"
     ELSE IF colName \in {"created_at", "updated_at", "deleted_at"}
       THEN "audit-timestamp"
     ELSE IF colName \in {"created_by", "updated_by", "deleted_by"}
       THEN "audit-user"
     ELSE IF isForeignKey THEN "foreign-key-dropdown"
     ELSE IF isEnum THEN "enum-select"
     ELSE IF HasKey(POSTGRES_TYPE_MAPPING, dataType)
       THEN TypeTableDecision(colName, dataType, udtName)
     ELSE FallbackDecision(colName, dataType, udtName)

(***************************************************************************)
(* getFieldFilteringStrategy(column, fieldType)                            *)
(***************************************************************************)
\* what obj[name] yields for a name inherited from Object.prototype: a
\* function object, which has neither a category nor a filters list
InheritedMember(name) == [inherited |-> name]

UnknownStrategy == [category |-> "unknown", filters |-> <<"equals">>]

\* POSTGRES_TYPE_MAPPING[dataType] || POSTGRES_TYPE_MAPPING[udtName];
\* "" stands for undefined
MappedType(dataType, udtName) ==
  IF HasKey(POSTGRES_TYPE_MAPPING, dataType)
    THEN Get(POSTGRES_TYPE_MAPPING, dataType)
  ELSE IF HasKey(POSTGRES_TYPE_MAPPING, udtName)
    THEN Get(POSTGRES_TYPE_MAPPING, udtName)
  ELSE ""

TypePatternStrategy(dataType) ==
  IF includes(dataType, "timestamp") \/ includes(dataType, "date")
    THEN Get(FIELD_FILTERING_STRATEGIES, "timestamp")
  ELSE IF \/ includes(dataType, "int")
          \/ includes(dataType, "numeric")
          \/ includes(dataType, "decimal")
    THEN Get(FIELD_FILTERING_STRATEGIES, "number")
  ELSE IF \/ includes(dataType, "varchar")
          \/ includes(dataType, "text")
          \/ includes(dataType, "char")
    THEN Get(FIELD_FILTERING_STRATEGIES, "varchar")
  ELSE IF includes(dataType, "bool")
    THEN Get(FIELD_FILTERING_STRATEGIES, "boolean")
  ELSE IF includes(dataType, "uuid")
    THEN Get(FIELD_FILTERING_STRATEGIES, "uuid")
  ELSE UnknownStrategy

getFieldFilteringStrategyEmptyDefault(column, fieldType) ==
  LET dataType == LowerOrEmpty(column, "data_type")
      udtName == LowerOrEmpty(column, "udt_name")
      mappedType == MappedType(dataType, udtName)
  IN IF HasKey(FIELD_FILTERING_STRATEGIES, fieldType)
       THEN Get(FIELD_FILTERING_STRATEGIES, fieldType)
     ELSE IF fieldType \in ObjectPrototypeNames
       THEN InheritedMember(fieldType)
     ELSE IF mappedType # "" /\ HasKey(FIELD_FILTERING_STRATEGIES, mappedType)
       THEN Get(FIELD_FILTERING_STRATEGIES, mappedType)
     ELSE IF TypePatternStrategy(dataType) # UnknownStrategy
       THEN TypePatternStrategy(dataType)
     ELSE [category |-> "unknown", filters |-> <<>>]

getFieldFilteringStrategyTypeTableFirst(column, fieldType) ==
  LET dataType == LowerOrEmpty(column, "data_type")
      udtName == LowerOrEmpty(column, "udt_name")
      mappedType == MappedType(dataType, udtName)
  IN IF mappedType # "" /\ HasKey(FIELD_FILTERING_STRATEGIES, mappedType)
       THEN Get(FIELD_FILTERING_STRATEGIES, mappedType)
     ELSE IF HasKey(FIELD_FILTERING_STRATEGIES, fieldType)
       THEN Get(FIELD_FILTERING_STRATEGIES, fieldType)
     ELSE IF fieldType \in ObjectPrototypeNames
       THEN InheritedMember(fieldType)
     ELSE TypePatternStrategy(dataType)

getFieldFilteringStrategy(column, fieldType) ==
  LET dataType == LowerOrEmpty(column, "data_type")
      udtName == LowerOrEmpty(column, "udt_name")
      mappedType == MappedType(dataType, udtName)
  IN IF HasKey(FIELD_FILTERING_STRATEGIES, fieldType)
       THEN Get(FIELD_FILTERING_STRATEGIES, fieldType)
     ELSE IF fieldType \in ObjectPrototypeNames
       THEN InheritedMember(fieldType)
     ELSE IF mappedType # "" /\ HasKey(FIELD_FILTERING_STRATEGIES, mappedType)
       THEN Get(FIELD_FILTERING_STRATEGIES, mappedType)
     ELSE TypePatternStrategy(dataType)

(***************************************************************************)
(* JavaScript values that may be null or undefined are tagged, so that a   *)
(* null list and an empty list stay distinct.                              *)
(***************************************************************************)
JsNull == [js |-> "null"]
JsUndefined == [js |-> "undefined"]
JsArray(items) == [js |-> "array", items |-> items]
JsString(s) == [js |-> "string", value |-> s]

\* null and undefined are falsy; every array and every object is truthy
Truthy(v) == v.js \notin {"null", "undefined"}

(***************************************************************************)
(* createConstraintMetadata(constraintValues, enumData, column) and its    *)
(* helpers.  enumData is undefined or a row                                *)
(* {column_name, enum_name, enum_values} of the enumeration query.         *)
(***************************************************************************)
HasEnumValues(enumData) == Truthy(enumData) /\ "enum_values" \in DOMAIN enumData

HasConstraintValues(constraintValues) ==
  Truthy(constraintValues) /\ Len(constraintValues.items) > 0

determineConstraintType(constraintValues, enumData, column) ==
  IF HasEnumValues(enumData) THEN "postgres_enum"
  ELSE IF HasConstraintValues(constraintValues) THEN "check_constraint"
  ELSE IF column.data_type = "boolean" THEN "boolean"
  ELSE "unknown"

calculateConfidence(constraintValues, enumData, column) ==
  IF HasEnumValues(enumData) THEN 100
  ELSE IF HasConstraintValues(constraintValues) THEN 95
  ELSE IF column.data_type = "boolean" THEN 100
  ELSE 0

getConstraintDefault(constraintValues, enumData, column) ==
  IF HasEnumValues(enumData) /\ Len(enumData.enum_values) > 0
    THEN JsString(enumData.enum_values[1])
  ELSE IF HasConstraintValues(constraintValues)
    THEN JsString(constraintValues.items[1])
  ELSE IF column.data_type = "boolean" THEN JsString("true")
  ELSE JsNull

getConstraintSource(checkConstraint, enumData) ==
  IF Truthy(enumData) THEN "postgres_enum"
  ELSE IF Truthy(checkConstraint) THEN "check_constraint"
  ELSE "inference"

\* constraintValues || enumData?.enum_values || []
MetadataValues(constraintValues, enumData) ==
  IF Truthy(constraintValues) THEN constraintValues.items
  ELSE IF HasEnumValues(enumData) THEN enumData.enum_values
  ELSE <<>>

createConstraintMetadata(constraintValues, enumData, column) ==
  [type |-> determineConstraintType(constraintValues, enumData, column),
   confidence |-> calculateConfidence(constraintValues, enumData, column),
   defaultValue |-> getConstraintDefault(constraintValues, enumData, column),
   source |-> getConstraintSource(JsNull, enumData),
   values |-> MetadataValues(constraintValues, enumData),
   allowNull |-> (column.is_nullable = "YES")]

(***************************************************************************)
(* Regular-expression steps of extractConstraintValues.  Each operator     *)
(* computes what the backtracking matcher of JavaScript computes for the   *)
(* expression named beside it.                                             *)
(***************************************************************************)
\* s.slice(i-1, j), empty when the range leaves the string
Slice(s, i, j) ==
  IF i >= 1 /\ j <= Len(s) /\ i <= j THEN SubSeq(s, i, j) ELSE ""

\* \s* from position i: the position of the first character that is no space
RECURSIVE SkipSpaces(_, _)
SkipSpaces(s, i) ==
  IF IsSpace(CharAt(s, i)) THEN SkipSpaces(s, i + 1) ELSE i

\* the first position >= i that holds character c, 0 when there is none
IndexOfFrom(s, c, i) ==
  LET hits == {j \in i..Len(s) : CharAt(s, j) = c}
  IN IF hits = {} THEN 0 ELSE CHOOSE j \in hits : \A k \in hits : j <= k

\* a literal word of an expression with the i flag, at position i
MatchesNoCase(s, i, word) ==
  toLowerCase(Slice(s, i, i + Len(word) - 1)) = word

NoMatch == [ok |-> FALSE]

\* \s*([^c]+)\s*c from position k: the group cannot cross c, so the closing c is
\* the first one at or after k and at least one character must precede it.
\* The greedy \s* takes the leading spaces and the group the rest; when only
\* spaces precede c the matcher backtracks \s* by one and the group is the
\* last space.  next is the position after the closing c.
Capture(s, k, c) ==
  LET e == IndexOfFrom(s, c, k)
      w == SkipSpaces(s, k)
  IN IF e = 0 \/ e = k THEN NoMatch
     ELSE [ok |-> TRUE,
           group |-> IF w < e THEN SubSeq(s, w, e - 1) ELSE SubSeq(s, e - 1, e - 1),
           next |-> e + 1]

\* /IN\s*\(\s*([^)]+)\s*\)/i  anchored at position i
MembershipListAt(s, i) ==
  LET p == SkipSpaces(s, i + 2)
  IN IF MatchesNoCase(s, i, "in") /\ CharAt(s, p) = "("
       THEN Capture(s, p + 1, ")")
       ELSE NoMatch

\* /=\s*ANY\s*\(\s*ARRAY\s*\[\s*([^\]]+)\s*\]\s*\)/i  anchored at position i, and
\* with parenthesised = TRUE  /=\s*ANY\s*\(\s*\(\s*ARRAY\s*\[\s*([^\]]+)\s*\]\s*\)/i
AnyArrayAt(s, i, parenthesised) ==
  LET pAny == SkipSpaces(s, i + 1)
      pOpen == SkipSpaces(s, pAny + 3)
      pInner == SkipSpaces(s, pOpen + 1)
      pArray == IF parenthesised THEN SkipSpaces(s, pInner + 1) ELSE pInner
      pBracket == SkipSpaces(s, pArray + 5)
      cap == Capture(s, pBracket + 1, "]")
  IN IF /\ CharAt(s, i) = "="
        /\ MatchesNoCase(s, pAny, "any")
        /\ CharAt(s, pOpen) = "("
        /\ parenthesised => CharAt(s, pInner) = "("
        /\ MatchesNoCase(s, pArray, "array")
        /\ CharAt(s, pBracket) = "["
        /\ cap.ok
        /\ CharAt(s, SkipSpaces(s, cap.next)) = ")"
       THEN cap
       ELSE NoMatch

\* String.prototype.match without the g flag: the leftmost position that matches
MatchMembershipList(s) ==
  LET hits == {i \in 1..Len(s) : MembershipListAt(s, i).ok}
  IN IF hits = {} THEN NoMatch
     ELSE MembershipListAt(s, CHOOSE i \in hits : \A j \in hits : i <= j)

MatchAnyArray(s, parenthesised) ==
  LET hits == {i \in 1..Len(s) : AnyArrayAt(s, i, parenthesised).ok}
  IN IF hits = {} THEN NoMatch
     ELSE AnyArrayAt(s, CHOOSE i \in hits : \A j \in hits : i <= j, parenthesised)

\* String.prototype.split(',')
RECURSIVE split(_)
split(s) ==
  LET j == IndexOfFrom(s, ",", 1)
  IN IF j = 0 THEN <<s>>
     ELSE <<Slice(s, 1, j - 1)>> \o split(Slice(s, j + 1, Len(s)))

RECURSIVE trimEnd(_)
trimEnd(s) ==
  IF s # "" /\ IsSpace(CharAt(s, Len(s))) THEN trimEnd(Slice(s, 1, Len(s) - 1))
  ELSE s

\* String.prototype.trim
trim(s) == LET t == trimEnd(s) IN Slice(t, SkipSpaces(t, 1), Len(t))

IsQuote(c) == c = "'" \/ c = "\""

\* replace(/^['"]|['"]$/g, ''): one quote at the start and one at the end
StripQuotes(s) ==
  LET a == IF IsQuote(CharAt(s, 1)) THEN 1 ELSE 0
      b == IF Len(s) > a /\ IsQuote(CharAt(s, Len(s))) THEN 1 ELSE 0
  IN Slice(s, a + 1, Len(s) - b)

\* /'::character\s+varying/ anchored at i: the position after the match, else 0
CharacterVaryingAt(s, i) ==
  LET a == i + Len("'::character")
      b == SkipSpaces(s, a)
  IN IF /\ Slice(s, i, a - 1) = "'::character"
        /\ b > a
        /\ Slice(s, b, b + Len("varying") - 1) = "varying"
       THEN b + Len("varying")
       ELSE 0

\* replace(/'::character\s+varying/g, '')
RECURSIVE RemoveCharacterVarying(_)
RemoveCharacterVarying(s) ==
  LET hits == {i \in 1..Len(s) : CharacterVaryingAt(s, i) # 0}
      i == CHOOSE h \in hits : \A j \in hits : h <= j
  IN IF hits = {} THEN s
     ELSE Slice(s, 1, i - 1)
            \o RemoveCharacterVarying(Slice(s, CharacterVaryingAt(s, i), Len(s)))

\* [\w\s]+ from position i: the position after the run
RECURSIVE SkipWordsAndSpaces(_, _)
SkipWordsAndSpaces(s, i) ==
  IF IsWord(CharAt(s, i)) \/ IsSpace(CharAt(s, i))
    THEN SkipWordsAndSpaces(s, i + 1)
    ELSE i

\* replace(/::[\w\s]+/g, '')
RECURSIVE RemoveCasts(_)
RemoveCasts(s) ==
  LET hits == {i \in 1..Len(s) :
                 Slice(s, i, i + 1) = "::" /\ SkipWordsAndSpaces(s, i + 2) > i + 2}
      i == CHOOSE h \in hits : \A j \in hits : h <= j
  IN IF hits = {} THEN s
     ELSE Slice(s, 1, i - 1)
            \o RemoveCasts(Slice(s, SkipWordsAndSpaces(s, i + 2), Len(s)))

\* Array.prototype.filter((val) => val.length > 0)
RECURSIVE NonEmpty(_)
NonEmpty(vals) ==
  IF vals = <<>> THEN <<>>
  ELSE (IF Head(vals) = "" THEN <<>> ELSE <<Head(vals)>>) \o NonEmpty(Tail(vals))

\* the literals of a membership list: quotes stripped
ListLiterals(group) ==
  LET parts == split(group)
  IN NonEmpty([i \in 1..Len(parts) |-> StripQuotes(trim(parts[i]))])

\* the literals of an array literal: quotes and casts stripped
ArrayLiterals(group) ==
  LET parts == split(group)
  IN NonEmpty([i \in 1..Len(parts) |->
                 RemoveCasts(RemoveCharacterVarying(StripQuotes(trim(parts[i]))))])

(***************************************************************************)
(* extractConstraintValues(checkClause)                                    *)
(***************************************************************************)
extractConstraintValues(checkClause) ==
  IF checkClause = "" THEN JsNull
  ELSE IF MatchMembershipList(checkClause).ok
    THEN JsArray(ListLiterals(MatchMembershipList(checkClause).group))
  ELSE IF MatchAnyArray(checkClause, TRUE).ok
    THEN JsArray(ArrayLiterals(MatchAnyArray(checkClause, TRUE).group))
  ELSE IF MatchAnyArray(checkClause, FALSE).ok
    THEN JsArray(ArrayLiterals(MatchAnyArray(checkClause, FALSE).group))
  ELSE JsNull

(***************************************************************************)
(* generateErrorCodes(tableName, schema).  The errorCodes object is a      *)
(* function from keys to identifiers; assigning to a key that is already   *)
(* present replaces its value and adds no entry.                           *)
(***************************************************************************)
EmptyObject == [k \in {} |-> ""]

Put(obj, key, value) ==
  [k \in DOMAIN obj \cup {key} |-> IF k = key THEN value ELSE obj[k]]

\* fields.map((f) => f.toUpperCase()).join('_')
RECURSIVE JoinUpper(_)
JoinUpper(fields) ==
  IF fields = <<>> THEN ""
  ELSE toUpperCase(Head(fields))
         \o (IF Len(fields) > 1 THEN "_" ELSE "")
         \o JoinUpper(Tail(fields))

RECURSIVE AddSingleField(_, _, _)
AddSingleField(obj, upperName, fields) ==
  IF fields = <<>> THEN obj
  ELSE LET fieldUpper == toUpperCase(Head(fields))
       IN AddSingleField(
            Put(obj, "DUPLICATE_" \o fieldUpper,
                upperName \o "_DUPLICATE_" \o fieldUpper),
            upperName, Tail(fields))

RECURSIVE AddComposite(_, _, _)
AddComposite(obj, upperName, composites) ==
  IF composites = <<>> THEN obj
  ELSE LET fieldsUpper == JoinUpper(Head(composites))
       IN AddComposite(
            Put(obj, "DUPLICATE_" \o fieldsUpper,
                upperName \o "_DUPLICATE_" \o fieldsUpper),
            upperName, Tail(composites))

RECURSIVE AddReferencing(_, _, _)
AddReferencing(obj, upperName, refs) ==
  IF refs = <<>> THEN obj
  ELSE LET refTableUpper == toUpperCase(Head(refs).table)
       IN AddReferencing(
            Put(obj, "CANNOT_DELETE_HAS_" \o refTableUpper,
                upperName \o "_CANNOT_DELETE_HAS_" \o refTableUpper),
            upperName, Tail(refs))

RECURSIVE AddBusinessRules(_, _, _)
AddBusinessRules(obj, upperName, rules) ==
  IF rules = <<>> THEN obj
  ELSE LET fieldUpper == toUpperCase(Head(rules).field)
           code == Head(rules).errorCode
       IN AddBusinessRules(
            Put(obj, code \o "_" \o fieldUpper,
                upperName \o "_" \o code \o "_" \o fieldUpper),
            upperName, Tail(rules))

generateErrorCodes(tableName, schema) ==
  LET upperName == toUpperCase(tableName)
      base == Put(Put(EmptyObject, "NOT_FOUND", upperName \o "_NOT_FOUND"),
                  "VALIDATION_ERROR", upperName \o "_VALIDATION_ERROR")
      withUnique ==
        IF "uniqueConstraints" \in DOMAIN schema
          THEN AddComposite(
                 AddSingleField(base, upperName,
                                schema.uniqueConstraints.singleField),
                 upperName, schema.uniqueConstraints.composite)
          ELSE base
      withReferences ==
        IF /\ "foreignKeyReferences" \in DOMAIN schema
           /\ Len(schema.foreignKeyReferences) > 0
          THEN AddReferencing(
                 Put(withUnique, "CANNOT_DELETE_HAS_REFERENCES",
                     upperName \o "_CANNOT_DELETE_HAS_REFERENCES"),
                 upperName, schema.foreignKeyReferences)
          ELSE withUnique
  IN IF "businessRules" \in DOMAIN schema /\ Len(schema.businessRules) > 0
       THEN AddBusinessRules(withReferences, upperName, schema.businessRules)
       ELSE withReferences

(***************************************************************************)
(* getDropdownDisplayFields(referencedTableName, referencedSchema)         *)
(***************************************************************************)
priorityFields ==
  <<"name", "title", "first_name", "username", "email", "description",
    "label", "display_name">>

HasColumn(columns, field) == \E i \in 1..Len(columns) : columns[i].name = field

IsStringField(col) ==
  col.name # "id" /\ col.type \in {"character varying", "varchar", "text"}

\* the priority fields that exist, else the first string field after id
AvailableFields(columns) ==
  LET present == SelectSeq(priorityFields, LAMBDA f : HasColumn(columns, f))
      strings == SelectSeq(columns, IsStringField)
  IN IF present # <<>> THEN present
     ELSE IF strings # <<>> THEN <<strings[1].name>>
     ELSE <<>>

\* Array.prototype.slice(0, n)
Take(arr, n) == SubSeq(arr, 1, IF Len(arr) < n THEN Len(arr) ELSE n)

getDropdownDisplayFieldsKeyLast(referencedTableName, referencedSchema) ==
  IF ~Truthy(referencedSchema) THEN <<"id">>
  ELSE LET availableFields == AvailableFields(referencedSchema.columns)
       IN Take(IF arrayIncludes(availableFields, "id") THEN availableFields
               ELSE availableFields \o <<"id">>,
               DisplayFieldLimit)

getDropdownDisplayFields(referencedTableName, referencedSchema) ==
  IF ~Truthy(referencedSchema) THEN <<"id">>
  ELSE LET availableFields == AvailableFields(referencedSchema.columns)
       IN Take(IF arrayIncludes(availableFields, "id") THEN availableFields
               ELSE <<"id">> \o availableFields,
               DisplayFieldLimit)

(***************************************************************************)
(* mapPostgresToTypeScript(dataType, udtName); "" stands for a missing     *)
(* udtName.                                                                *)
(***************************************************************************)
typeMap ==
  << <<"integer", "number">>, <<"bigint", "number">>, <<"smallint", "number">>,
     <<"decimal", "number">>, <<"numeric", "number">>, <<"real", "number">>,
     <<"double precision", "number">>, <<"serial", "number">>,
     <<"bigserial", "number">>,
     <<"character varying", "string">>, <<"varchar", "string">>,
     <<"character", "string">>, <<"char", "string">>, <<"text", "string">>,
     <<"boolean", "boolean">>,
     <<"timestamp without time zone", "Date">>,
     <<"timestamp with time zone", "Date">>, <<"date", "Date">>,
     <<"time", "string">>,
     <<"json", "Record<string, any>">>, <<"jsonb", "Record<string, any>">>,
     <<"uuid", "string">>, <<"bytea", "Buffer">>, <<"array", "any[]">> >>

mapPostgresToTypeScript(dataType, udtName) ==
  IF udtName # "" /\ CharAt(udtName, 1) = "_"
    THEN LET baseType == Slice(udtName, 2, Len(udtName))
         IN (IF HasKey(typeMap, baseType) THEN Get(typeMap, baseType)
             ELSE "any") \o "[]"
  ELSE IF HasKey(typeMap, dataType) THEN Get(typeMap, dataType)
  ELSE IF HasKey(typeMap, udtName) THEN Get(typeMap, udtName)
  ELSE "any"

(***************************************************************************)
(* detectBusinessRules(columns): columns.forEach pushes onto one rules     *)
(* list; a column is {name, type, tsType, ...} as getDatabaseSchema builds *)
(* it.                                                                     *)
(***************************************************************************)
IncludesAny(s, subs) == \E sub \in subs : includes(s, sub)

IsPastDate(colName, dataType, tsType) ==
  /\ includes(dataType, "date") \/ tsType = "Date"
  /\ IncludesAny(colName, {"birth", "dob", "born"})

IsPositiveNumber(colName, dataType, tsType) ==
  /\ tsType = "number"
  /\ IncludesAny(colName, {"price", "cost", "amount", "quantity", "count"})

IsEmail(colName, dataType, tsType) ==
  IncludesAny(colName, {"email", "e_mail"}) \/ colName = "mail"

IsUrl(colName, dataType, tsType) ==
  IncludesAny(colName, {"url", "website", "link"})

IsPhone(colName, dataType, tsType) ==
  IncludesAny(colName, {"phone", "tel", "mobile"})

Rule(column, type, requirement, errorCode) ==
  [field |-> column.name, type |-> type,
   message |-> column.name \o requirement, errorCode |-> errorCode]

\* the rules list after the five tests of one forEach iteration
PushRules(rules, column) ==
  LET colName == toLowerCase(column.name)
      dataType == LowerOrEmpty(column, "type")
      tsType == column.tsType
      r1 == IF IsPastDate(colName, dataType, tsType)
              THEN Append(rules, Rule(column, "date_not_future",
                                      " cannot be in the future",
                                      "INVALID_DATE"))
              ELSE rules
      r2 == IF IsPositiveNumber(colName, dataType, tsType)
              THEN Append(r1, Rule(column, "positive_number",
                                   " must be a positive number",
                                   "INVALID_VALUE"))
              ELSE r1
      r3 == IF IsEmail(colName, dataType, tsType)
              THEN Append(r2, Rule(column, "email_format",
                                   " must be a valid email address",
                                   "INVALID_EMAIL"))
              ELSE r2
      r4 == IF IsUrl(colName, dataType, tsType)
              THEN Append(r3, Rule(column, "url_format",
                                   " must be a valid URL", "INVALID_URL"))
              ELSE r3
  IN IF IsPhone(colName, dataType, tsType)
       THEN Append(r4, Rule(column, "phone_format",
                            " must be a valid phone number", "INVALID_PHONE"))
       ELSE r4

\* a variant that emits each rule type once per table
PushRulesOncePerType(rules, column) ==
  LET fresh == PushRules(<<>>, column)
      seen == {rules[i].type : i \in 1..Len(rules)}
  IN rules \o SelectSeq(fresh, LAMBDA r : r.type \notin seen)

RECURSIVE ForEachColumn(_, _)
ForEachColumn(rules, columns) ==
  IF columns = <<>> THEN rules
  ELSE ForEachColumn(PushRules(rules, Head(columns)), Tail(columns))

RECURSIVE ForEachColumnOncePerType(_, _)
ForEachColumnOncePerType(rules, columns) ==
  IF columns = <<>> THEN rules
  ELSE ForEachColumnOncePerType(PushRulesOncePerType(rules, Head(columns)),
                                Tail(columns))

detectBusinessRulesOncePerType(columns) ==
  ForEachColumnOncePerType(<<>>, columns)

detectBusinessRules(columns) == ForEachColumn(<<>>, columns)

(***************************************************************************)
(* getDatabaseSchema(tableName), lines 98-187: the schema built from the   *)
(* rows of the five metadata queries.  `facts` holds the rows of one table *)
(* as the queries return them.  The attributes maxLength, precision, scale *)
(* and typeboxType, which the engine copies and never reads, are left out. *)
(***************************************************************************)
\* rows.find((r) => r.column_name === name): the first such row or undefined
FindRow(rows, name) ==
  LET hits == {i \in 1..Len(rows) : rows[i].column_name = name}
  IN IF hits = {} THEN JsUndefined
     ELSE rows[CHOOSE i \in hits : \A j \in hits : i <= j]

SomeRow(rows, name) == \E i \in 1..Len(rows) : rows[i].column_name = name

ProcessColumn(col, facts) ==
  LET isFK == SomeRow(facts.foreignKeys, col.column_name)
      fkInfo == FindRow(facts.foreignKeys, col.column_name)
      enumData == FindRow(facts.enumInfo, col.column_name)
      checkConstraint == FindRow(facts.checkConstraints, col.column_name)
      constraintValues ==
        IF Truthy(checkConstraint)
          THEN extractConstraintValues(checkConstraint.check_clause)
          ELSE JsNull
      constraintMetadata ==
        createConstraintMetadata(constraintValues, enumData, col)
      isEnum == Truthy(enumData) \/ Truthy(constraintValues)
      fieldType == determineFieldType(col, isFK, isEnum)
  IN [name |-> col.column_name,
      type |-> col.data_type,
      udtName |-> col.udt_name,
      isNullable |-> (col.is_nullable = "YES"),
      defaultValue |-> col.column_default,
      isPrimaryKey |-> SomeRow(facts.primaryKeys, col.column_name),
      isForeignKey |-> isFK,
      foreignKeyInfo |->
        IF Truthy(fkInfo)
          THEN [js |-> "object",
                referencedTable |-> fkInfo.foreign_table_name,
                referencedColumn |-> fkInfo.foreign_column_name,
                constraintName |-> fkInfo.constraint_name]
          ELSE JsNull,
      isEnum |-> isEnum,
      enumInfo |->
        IF Truthy(enumData)
          THEN [js |-> "object", typeName |-> enumData.enum_name,
                values |-> enumData.enum_values]
          ELSE JsNull,
      constraintValues |-> constraintValues,
      constraintMetadata |-> constraintMetadata,
      fieldType |-> fieldType,
      filteringStrategy |-> getFieldFilteringStrategy(col, fieldType),
      tsType |-> mapPostgresToTypeScript(col.data_type, col.udt_name)]

DatabaseSchema(tableName, facts) ==
  [js |-> "object",
   tableName |-> tableName,
   columns |-> [i \in 1..Len(facts.columns) |->
                  ProcessColumn(facts.columns[i], facts)],
   primaryKey |-> [i \in 1..Len(facts.primaryKeys) |->
                     facts.primaryKeys[i].column_name],
   foreignKeys |-> [i \in 1..Len(facts.foreignKeys) |->
                      [column |-> facts.foreignKeys[i].column_name,
                       referencedTable |->
                         facts.foreignKeys[i].foreign_table_name,
                       referencedColumn |->
                         facts.foreignKeys[i].foreign_column_name]]]

(***************************************************************************)
(* detectUniqueConstraints(tableName), lines 1140-1177, and                *)
(* detectForeignKeyReferences(tableName), lines 1222-1241: what each makes *)
(* of the rows of its query.  column_names arrives as a list or as text    *)
(* of the form {a,b}.                                                      *)
(***************************************************************************)
\* replace(/^\{/, '').replace(/\}$/, '').split(',').map((col) => col.trim())
ParseColumnNames(text) ==
  LET open == IF CharAt(text, 1) = "{" THEN Slice(text, 2, Len(text))
              ELSE text
      bare == IF open # "" /\ CharAt(open, Len(open)) = "}"
                THEN Slice(open, 1, Len(open) - 1)
                ELSE open
      parts == split(bare)
  IN [i \in 1..Len(parts) |-> trim(parts[i])]

ConstraintColumns(constraint) ==
  IF constraint.column_names.js = "string"
    THEN ParseColumnNames(constraint.column_names.value)
    ELSE constraint.column_names.items

RECURSIVE SortUniqueConstraints(_, _)
SortUniqueConstraints(found, rows) ==
  IF rows = <<>> THEN found
  ELSE LET columns == ConstraintColumns(Head(rows))
           columnCount == Head(rows).column_count
       IN SortUniqueConstraints(
            IF columnCount = 1
              THEN [found EXCEPT !.singleField = Append(@, columns[1])]
            ELSE IF columnCount > 1
              THEN [found EXCEPT !.composite = Append(@, columns)]
            ELSE found,
            Tail(rows))

NoUniqueConstraints == [singleField |-> <<>>, composite |-> <<>>]

UniqueConstraintsOf(rows) == SortUniqueConstraints(NoUniqueConstraints, rows)

ForeignKeyReferencesOf(rows) ==
  [i \in 1..Len(rows) |->
     [table |-> rows[i].referencing_table,
      field |-> rows[i].referencing_column,
      cascade |-> (rows[i].on_delete_rule = "CASCADE"),
      deleteRule |-> rows[i].on_delete_rule]]

(***************************************************************************)
(* The foreign-key enrichment of getEnhancedSchema, lines 841-878, with    *)
(* getDropdownEndpoint and the test of hasDropdownEndpoint.                *)
(***************************************************************************)
getDropdownEndpoint(foreignKeyInfo) ==
  IF ~Truthy(foreignKeyInfo) THEN JsNull
  ELSE "/" \o foreignKeyInfo.referencedTable \o "/dropdown"

dropdownNameFields == <<"name", "title", "first_name", "username", "email">>

\* schema.columns.some((col) => [...].includes(col.name)), false for null
hasDisplayField(schema) ==
  /\ Truthy(schema)
  /\ \E i \in 1..Len(schema.columns) :
       arrayIncludes(dropdownNameFields, schema.columns[i].name)

\* a variant that enriches by classification
NeedsEnrichmentByFieldType(column) == column.fieldType = "foreign-key-dropdown"

\* line 841
NeedsEnrichment(column) == column.isForeignKey /\ Truthy(column.foreignKeyInfo)

\* a variant that writes the dropdownInfo over the descriptor's foreignKeyInfo
EnrichedOverKeyInfo(column, referencedSchema, hasDropdown) ==
  Put(Put(column, "foreignKeyInfo", JsNull), "dropdownInfo",
      [endpoint |-> getDropdownEndpoint(column.foreignKeyInfo),
       hasEndpoint |-> hasDropdown,
       displayFields |->
         getDropdownDisplayFields(column.foreignKeyInfo.referencedTable,
                                  referencedSchema),
       referencedSchema |-> referencedSchema])

\* lines 853-861
Enriched(column, referencedSchema, hasDropdown) ==
  Put(column, "dropdownInfo",
      [endpoint |-> getDropdownEndpoint(column.foreignKeyInfo),
       hasEndpoint |-> hasDropdown,
       displayFields |->
         getDropdownDisplayFields(column.foreignKeyInfo.referencedTable,
                                  referencedSchema),
       referencedSchema |-> referencedSchema])

\* a variant whose fallback offers no display field
EnrichmentFallbackWithoutKey(column) ==
  Put(column, "dropdownInfo",
      [endpoint |-> getDropdownEndpoint(column.foreignKeyInfo),
       hasEndpoint |-> FALSE,
       displayFields |-> << >>,
       referencedSchema |-> JsNull])

EnrichmentFallback(column) ==
  Put(column, "dropdownInfo",
      [endpoint |-> getDropdownEndpoint(column.foreignKeyInfo),
       hasEndpoint |-> FALSE,
       displayFields |-> <<"id">>,
       referencedSchema |-> JsNull])

\* a variant whose counts are the lengths of the two field lists
CapabilitiesCountingFields(enhancedColumns) ==
  LET Some(P(_)) == \E i \in 1..Len(enhancedColumns) : P(enhancedColumns[i])
      IsForeignKey(col) == col.isForeignKey
      IsEnum(col) == col.isEnum
      IsDropdown(col) == col.fieldType = "foreign-key-dropdown"
      IsSelect(col) == col.fieldType = "enum-select"
  IN [hasAuditFields |-> Some(LAMBDA col : col.fieldType = "audit-timestamp"),
      hasUserAuditFields |-> Some(LAMBDA col : col.fieldType = "audit-user"),
      hasForeignKeys |-> Some(IsForeignKey),
      hasEnums |-> Some(IsEnum),
      foreignKeyCount |-> Len(SelectSeq(enhancedColumns, IsDropdown)),
      enumCount |-> Len(SelectSeq(enhancedColumns, IsSelect)),
      dropdownFields |-> SelectSeq(enhancedColumns, IsDropdown),
      selectFields |-> SelectSeq(enhancedColumns, IsSelect)]

\* lines 884-901
Capabilities(enhancedColumns) ==
  LET Some(P(_)) == \E i \in 1..Len(enhancedColumns) : P(enhancedColumns[i])
      IsForeignKey(col) == col.isForeignKey
      IsEnum(col) == col.isEnum
      IsDropdown(col) == col.fieldType = "foreign-key-dropdown"
      IsSelect(col) == col.fieldType = "enum-select"
  IN [hasAuditFields |-> Some(LAMBDA col : col.fieldType = "audit-timestamp"),
      hasUserAuditFields |-> Some(LAMBDA col : col.fieldType = "audit-user"),
      hasForeignKeys |-> Some(IsForeignKey),
      hasEnums |-> Some(IsEnum),
      foreignKeyCount |-> Len(SelectSeq(enhancedColumns, IsForeignKey)),
      enumCount |-> Len(SelectSeq(enhancedColumns, IsEnum)),
      dropdownFields |-> SelectSeq(enhancedColumns, IsDropdown),
      selectFields |-> SelectSeq(enhancedColumns, IsSelect)]

(***************************************************************************)
(* Raw catalog columns the functions are applied to.                       *)
(***************************************************************************)
ColumnNames ==
  {"id", "ID", "created_at", "updated_at", "deleted_at", "created_by",
   "updated_by", "deleted_by", "Deleted_At", "author_id", "email", "status",
   "bio", "price", "tags", "name", "message_link"}

AuditNames ==
  {"created_at", "updated_at", "deleted_at",
   "created_by", "updated_by", "deleted_by"}

DataTypes ==
  {"integer", "bigint", "numeric", "character varying", "text",
   "timestamp without time zone", "date", "boolean", "uuid", "jsonb",
   "interval", "inet", "point", "USER-DEFINED", "ARRAY", "money"}

UdtNames == {"int4", "varchar", "text", "bool", "uuid", "_text", "status_t"}

\* rows of information_schema.columns: udt_name may be absent from the object
RawColumns ==
  [column_name : ColumnNames, data_type : DataTypes, udt_name : UdtNames]
    \cup [column_name : ColumnNames, data_type : DataTypes]

\* catalog types of the strategy lookup: the above and types the static table
\* does not know, some of which the substring heuristics recognise
StrategyDataTypes ==
  DataTypes \cup {"daterange", "int4range", "citext", "tsvector", "Boolean"}

\* the column handed to getFieldFilteringStrategy: data_type and udt_name may
\* each be absent
StrategyColumns ==
  [data_type : StrategyDataTypes, udt_name : UdtNames]
    \cup [data_type : StrategyDataTypes]
    \cup [udt_name : UdtNames]
    \cup {[column_name |-> "x"]}

\* every kind determineFieldType can return
FieldKinds ==
  {"primary-key", "audit-timestamp", "audit-user", "foreign-key-dropdown",
   "enum-select", "array", "datetime", "number", "text"}
    \cup {POSTGRES_TYPE_MAPPING[i][2] : i \in 1..Len(POSTGRES_TYPE_MAPPING)}
    \cup {FIELD_NAME_PATTERNS[i][1] : i \in 1..Len(FIELD_NAME_PATTERNS)}

\* fieldType arguments: the kinds, names no table knows, and a name every
\* object inherits
FieldTypeArguments == FieldKinds \cup {"unrecognised", "", "constructor"}

\* sequences over S of length lo..hi
SeqsOf(S, lo, hi) == UNION {[1..n -> S] : n \in lo..hi}

DomainLabels == {"a", "b", "c"}

\* what extractConstraintValues hands over: null, or a possibly empty list
ConstraintValueArguments ==
  {JsNull} \cup {JsArray(l) : l \in SeqsOf(DomainLabels, 0, MaxValues)}

\* a row of the enumeration query (array_agg over at least one label), or
\* undefined when the column has no declared enumeration
EnumDataArguments ==
  {JsUndefined}
    \cup {[js |-> "object", column_name |-> "status", enum_name |-> "status_t",
           enum_values |-> l] : l \in SeqsOf(DomainLabels, 1, MaxValues)}

MetadataColumns ==
  [column_name : {"status"},
   data_type : {"boolean", "text", "character varying", "USER-DEFINED"},
   is_nullable : {"YES", "NO"}]

(***************************************************************************)
(* Check clauses: a column compared with a list of quoted literals, in the *)
(* membership-list shape and in the array shapes, each literal bare or     *)
(* followed by a type cast.                                                *)
(***************************************************************************)
ClauseColumns == {"status", "pin"}

ClauseShapes == {"in", "any", "any_cast", "any_paren_cast"}

LiteralCasts == {"", "::character varying", "::text"}

Separators == {",", ", "}

RECURSIVE JoinLiterals(_, _, _)
JoinLiterals(labels, cast, sep) ==
  IF labels = <<>> THEN ""
  ELSE "'" \o Head(labels) \o "'" \o cast
         \o (IF Len(labels) > 1 THEN sep ELSE "")
         \o JoinLiterals(Tail(labels), cast, sep)

\* in              status IN ('a', 'b')
\* any             status = ANY (ARRAY['a', 'b'])
\* any_cast        status = ANY (ARRAY['a', 'b']::character varying[])
\* any_paren_cast  ((status)::text = ANY ((ARRAY['a', 'b'])::text[]))
RenderClause(shape, col, labels, cast, sep) ==
  LET list == JoinLiterals(labels, cast, sep)
  IN CASE shape = "in" -> col \o " IN (" \o list \o ")"
       [] shape = "any" -> col \o " = ANY (ARRAY[" \o list \o "])"
       [] shape = "any_cast" ->
            col \o " = ANY (ARRAY[" \o list \o "]::character varying[])"
       [] shape = "any_paren_cast" ->
            "((" \o col \o ")::text = ANY ((ARRAY[" \o list \o "])::text[]))"

ClauseLabels == {"a", "b", "draft", "published"}

\* clauses of no recognised shape, and the absent clause
OtherClauses == {"x > 5", "price > 0 AND price < 100", ""}

(***************************************************************************)
(* Table schemas handed to generateErrorCodes: the lists the constraint    *)
(* queries and detectBusinessRules produce, in their result order.         *)
(***************************************************************************)
\* the elements of pool at the indices I, in pool order
RECURSIVE SeqOfIndices(_, _)
SeqOfIndices(pool, I) ==
  IF I = {} THEN <<>>
  ELSE LET m == CHOOSE i \in I : \A j \in I : i <= j
       IN <<pool[m]>> \o SeqOfIndices(pool, I \ {m})

\* the subsequences of pool of at most max elements
SubSeqsOf(pool, max) ==
  {SeqOfIndices(pool, I) :
     I \in {J \in SUBSET (1..Len(pool)) : Cardinality(J) <= max}}

TableNames == {"users", "order_items"}

SingleFieldPool == <<"email", "username", "a_b">>

CompositePool == << <<"a", "b">>, <<"tenant_id", "slug">> >>

\* rows of the inbound-reference query, ordered by table and column
ReferencePool ==
  << [table |-> "orders", field |-> "billing_user_id", cascade |-> FALSE,
      deleteRule |-> "NO ACTION"],
     [table |-> "orders", field |-> "shipping_user_id", cascade |-> FALSE,
      deleteRule |-> "NO ACTION"],
     [table |-> "reviews", field |-> "user_id", cascade |-> TRUE,
      deleteRule |-> "CASCADE"] >>

\* rules detectBusinessRules emits, in column order
BusinessRulePool ==
  << [field |-> "email", type |-> "email_format",
      message |-> "email must be a valid email address",
      errorCode |-> "INVALID_EMAIL"],
     [field |-> "price", type |-> "positive_number",
      message |-> "price must be a positive number",
      errorCode |-> "INVALID_VALUE"],
     [field |-> "website", type |-> "url_format",
      message |-> "website must be a valid URL",
      errorCode |-> "INVALID_URL"] >>

ErrorCodeSchemas ==
  {[uniqueConstraints |-> [singleField |-> single, composite |-> composite],
    foreignKeyReferences |-> refs,
    businessRules |-> rules] :
     single \in SubSeqsOf(SingleFieldPool, MaxConstraints),
     composite \in SubSeqsOf(CompositePool, MaxConstraints),
     refs \in SubSeqsOf(ReferencePool, MaxConstraints),
     rules \in SubSeqsOf(BusinessRulePool, MaxConstraints)}

(***************************************************************************)
(* Referenced tables handed to getDropdownDisplayFields: null (the table   *)
(* does not exist) or a schema whose columns are any selection of the pool *)
(* in catalog order, the empty one included.                               *)
(***************************************************************************)
ReferencedColumnPool ==
  << [name |-> "id", type |-> "uuid"],
     [name |-> "qty", type |-> "integer"],
     [name |-> "code", type |-> "character varying"],
     [name |-> "notes", type |-> "text"],
     [name |-> "display_name", type |-> "character varying"],
     [name |-> "email", type |-> "character varying"],
     [name |-> "description", type |-> "text"],
     [name |-> "title", type |-> "character varying"],
     [name |-> "name", type |-> "character varying"] >>

ReferencedSchemas ==
  {JsNull}
    \cup {[js |-> "object", tableName |-> "authors", columns |-> cols] :
           cols \in SubSeqsOf(ReferencedColumnPool, Len(ReferencedColumnPool))}

(***************************************************************************)
(* Columns handed to detectBusinessRules: the name, catalog type and       *)
(* TypeScript type of a schema column; names that match no pattern, one    *)
(* pattern and several patterns.                                           *)
(***************************************************************************)
SchemaColumn(name, dataType, udtName) ==
  [name |-> name, type |-> dataType, udtName |-> udtName,
   tsType |-> mapPostgresToTypeScript(dataType, udtName)]

RuleColumnPool ==
  {SchemaColumn("birth_date", "date", "date"),
   SchemaColumn("born_at", "timestamp with time zone", "timestamptz"),
   SchemaColumn("dob", "text", "text"),
   SchemaColumn("price", "numeric", "numeric"),
   SchemaColumn("discount", "integer", "int4"),
   SchemaColumn("amount", "money", "money"),
   SchemaColumn("email", "character varying", "varchar"),
   SchemaColumn("Mail", "text", "text"),
   SchemaColumn("gmail", "text", "text"),
   SchemaColumn("email_link", "character varying", "varchar"),
   SchemaColumn("mobile_tel", "character varying", "varchar"),
   SchemaColumn("website_url", "text", "text"),
   SchemaColumn("birth_count_url", "ARRAY", "_int4"),
   SchemaColumn("title", "character varying", "varchar")}

RuleColumns == SeqsOf(RuleColumnPool, 0, MaxColumns)

(***************************************************************************)
(* The catalog the asynchronous reads run against: per table the rows of   *)
(* each query of getDatabaseSchema, detectUniqueConstraints and            *)
(* detectForeignKeyReferences, in result order.  It has a table without    *)
(* foreign keys (authors), tables with two foreign keys (books, tickets),  *)
(* a self-referencing table (categories), two tables that reference each   *)
(* other (employees, departments), a declared enumeration, a check         *)
(* constraint, a foreign key with an audit name, a foreign key whose       *)
(* target is not visible (ghosts), and a table keyed by code instead of id *)
(* (regions) with a check constraint that admits only the empty string     *)
(* and a foreign key that also has a check constraint.                     *)
(***************************************************************************)
ColumnRow(name, dataType, udtName, nullable) ==
  [column_name |-> name, data_type |-> dataType, udt_name |-> udtName,
   is_nullable |-> nullable, column_default |-> JsNull]

KeyRow(name) == [column_name |-> name]

ForeignKeyRow(table, name, foreignTable) ==
  [js |-> "object", column_name |-> name,
   foreign_table_name |-> foreignTable, foreign_column_name |-> "id",
   constraint_name |-> table \o "_" \o name \o "_fkey"]

ReferenceRow(table, name, rule) ==
  [referencing_table |-> table, referencing_column |-> name,
   on_delete_rule |-> rule]

AuthorsFacts ==
  [columns |->
     << ColumnRow("id", "uuid", "uuid", "NO"),
        ColumnRow("name", "character varying", "varchar", "NO"),
        ColumnRow("email", "character varying", "varchar", "YES"),
        ColumnRow("bio", "text", "text", "YES"),
        ColumnRow("created_at", "timestamp without time zone", "timestamp",
                  "YES") >>,
   primaryKeys |-> << KeyRow("id") >>,
   foreignKeys |-> << >>,
   enumInfo |-> << >>,
   checkConstraints |-> << >>,
   uniqueConstraints |->
     << [constraint_name |-> "authors_email_key",
         column_names |-> JsString("{email}"), column_count |-> 1] >>,
   references |->
     << ReferenceRow("books", "author_id", "NO ACTION"),
        ReferenceRow("tickets", "created_by", "SET NULL") >>]

BooksFacts ==
  [columns |->
     << ColumnRow("id", "uuid", "uuid", "NO"),
        ColumnRow("title", "character varying", "varchar", "NO"),
        ColumnRow("author_id", "uuid", "uuid", "NO"),
        ColumnRow("category_id", "integer", "int4", "YES"),
        ColumnRow("status", "USER-DEFINED", "book_status", "NO") >>,
   primaryKeys |-> << KeyRow("id") >>,
   foreignKeys |->
     << ForeignKeyRow("books", "author_id", "authors"),
        ForeignKeyRow("books", "category_id", "categories") >>,
   enumInfo |->
     << [js |-> "object", column_name |-> "status",
         enum_name |-> "book_status",
         enum_values |-> <<"draft", "published">>] >>,
   checkConstraints |-> << >>,
   uniqueConstraints |->
     << [constraint_name |-> "books_author_id_title_key",
         column_names |-> JsString("{author_id,title}"),
         column_count |-> 2] >>,
   references |-> << >>]

CategoriesFacts ==
  [columns |->
     << ColumnRow("id", "integer", "int4", "NO"),
        ColumnRow("label", "character varying", "varchar", "NO"),
        ColumnRow("parent_id", "integer", "int4", "YES") >>,
   primaryKeys |-> << KeyRow("id") >>,
   foreignKeys |-> << ForeignKeyRow("categories", "parent_id", "categories") >>,
   enumInfo |-> << >>,
   checkConstraints |-> << >>,
   uniqueConstraints |->
     << [constraint_name |-> "categories_label_key",
         column_names |-> JsArray(<<"label">>), column_count |-> 1] >>,
   references |->
     << ReferenceRow("books", "category_id", "SET NULL"),
        ReferenceRow("categories", "parent_id", "CASCADE") >>]

EmployeesFacts ==
  [columns |->
     << ColumnRow("id", "integer", "int4", "NO"),
        ColumnRow("first_name", "character varying", "varchar", "NO"),
        ColumnRow("department_id", "integer", "int4", "YES") >>,
   primaryKeys |-> << KeyRow("id") >>,
   foreignKeys |->
     << ForeignKeyRow("employees", "department_id", "departments") >>,
   enumInfo |-> << >>,
   checkConstraints |-> << >>,
   uniqueConstraints |-> << >>,
   references |-> << ReferenceRow("departments", "manager_id", "NO ACTION") >>]

DepartmentsFacts ==
  [columns |->
     << ColumnRow("id", "integer", "int4", "NO"),
        ColumnRow("code", "character", "bpchar", "NO"),
        ColumnRow("manager_id", "integer", "int4", "YES") >>,
   primaryKeys |-> << KeyRow("id") >>,
   foreignKeys |->
     << ForeignKeyRow("departments", "manager_id", "employees") >>,
   enumInfo |-> << >>,
   checkConstraints |-> << >>,
   uniqueConstraints |-> << >>,
   references |->
     << ReferenceRow("employees", "department_id", "NO ACTION") >>]

TicketsFacts ==
  [columns |->
     << ColumnRow("id", "integer", "int4", "NO"),
        ColumnRow("priority", "character varying", "varchar", "NO"),
        ColumnRow("owner_id", "integer", "int4", "YES"),
        ColumnRow("created_by", "uuid", "uuid", "YES") >>,
   primaryKeys |-> << KeyRow("id") >>,
   foreignKeys |->
     << ForeignKeyRow("tickets", "owner_id", "ghosts"),
        ForeignKeyRow("tickets", "created_by", "authors") >>,
   enumInfo |-> << >>,
   checkConstraints |->
     << [js |-> "object", column_name |-> "priority",
         check_clause |->
           "((priority)::text = ANY ((ARRAY['low'::character varying, 'high'::character varying])::text[]))"] >>,
   uniqueConstraints |-> << >>,
   references |-> << >>]

RegionsFacts ==
  [columns |->
     << ColumnRow("code", "character varying", "varchar", "NO"),
        ColumnRow("zone", "character varying", "varchar", "YES"),
        ColumnRow("parent_code", "character varying", "varchar", "YES") >>,
   primaryKeys |-> << KeyRow("code") >>,
   foreignKeys |->
     << [ForeignKeyRow("regions", "parent_code", "regions")
           EXCEPT !.foreign_column_name = "code"] >>,
   enumInfo |-> << >>,
   checkConstraints |->
     << [js |-> "object", column_name |-> "zone",
         check_clause |->
           "((zone)::text = ANY ((ARRAY[''::character varying])::text[]))"],
        [js |-> "object", column_name |-> "parent_code",
         check_clause |->
           "((parent_code)::text = ANY ((ARRAY['eu'::character varying, 'as'::character varying])::text[]))"] >>,
   uniqueConstraints |-> << >>,
   references |-> << ReferenceRow("regions", "parent_code", "NO ACTION") >>]

Catalog ==
  ("authors" :> AuthorsFacts) @@ ("books" :> BooksFacts)
    @@ ("categories" :> CategoriesFacts) @@ ("employees" :> EmployeesFacts)
    @@ ("departments" :> DepartmentsFacts) @@ ("tickets" :> TicketsFacts)
    @@ ("regions" :> RegionsFacts)

\* table names a caller asks for: those of the catalog and one that is absent
RequestedTables == DOMAIN Catalog \cup {"ghosts"}

\* error.message of a query the database rejects
QueryError == "connection terminated unexpectedly"

\* new Date().toISOString() at the time the enhanced schema is returned
Clock == {"2025-01-01T00:00:00.000Z", "2025-01-01T00:00:01.000Z"}

(***************************************************************************)
(* Operations.  An invocation starts with its arguments chosen (Init) and  *)
(* returns once: the action of a function applies it to the arguments of   *)
(* the pending call.                                                       *)
(***************************************************************************)
DetermineFieldTypeCalls ==
  [op : {"determineFieldType"}, column : RawColumns,
   isForeignKey : BOOLEAN, isEnum : BOOLEAN]

GetFieldFilteringStrategyCalls ==
  [op : {"getFieldFilteringStrategy"}, column : StrategyColumns,
   fieldType : FieldTypeArguments]

CreateConstraintMetadataCalls ==
  [op : {"createConstraintMetadata"},
   constraintValues : ConstraintValueArguments,
   enumData : EnumDataArguments, column : MetadataColumns]

ExtractConstraintValuesCalls ==
  {[op |-> "extractConstraintValues", shape |-> shape, literals |-> labels,
    cast |-> cast,
    checkClause |-> RenderClause(shape, col, labels, cast, sep)] :
     shape \in ClauseShapes, col \in ClauseColumns,
     labels \in SeqsOf(ClauseLabels, 1, MaxLits),
     cast \in LiteralCasts, sep \in Separators}
    \cup {[op |-> "extractConstraintValues", shape |-> "other",
           literals |-> <<>>, cast |-> "", checkClause |-> c] :
            c \in OtherClauses}

GenerateErrorCodesCalls ==
  [op : {"generateErrorCodes"}, tableName : TableNames,
   schema : ErrorCodeSchemas]

GetDropdownDisplayFieldsCalls ==
  [op : {"getDropdownDisplayFields"}, referencedTableName : {"authors"},
   referencedSchema : ReferencedSchemas]

DetectBusinessRulesCalls ==
  [op : {"detectBusinessRules"}, columns : RuleColumns]

GetDatabaseSchemaCalls ==
  [op : {"getDatabaseSchema"}, tableName : RequestedTables]

GetEnhancedSchemaCalls ==
  [op : {"getEnhancedSchema"}, tableName : RequestedTables]

Calls ==
  DetermineFieldTypeCalls
    \cup GenerateErrorCodesCalls
    \cup GetDropdownDisplayFieldsCalls
    \cup ExtractConstraintValuesCalls
    \cup CreateConstraintMetadataCalls
    \cup GetFieldFilteringStrategyCalls
    \cup DetectBusinessRulesCalls
    \cup GetDatabaseSchemaCalls
    \cup GetEnhancedSchemaCalls

Init ==
  /\ call \in Calls
  /\ pc = "called"
  /\ result = "pending"
  /\ frames = << >>
  /\ tableSchema = JsUndefined
  /\ enhanced = << >>
  /\ rejected = {}

DetermineFieldType ==
  /\ pc = "called"
  /\ call.op = "determineFieldType"
  /\ result' = determineFieldType(call.column, call.isForeignKey, call.isEnum)
  /\ pc' = "returned"
  /\ UNCHANGED <<call, frames, tableSchema, enhanced, rejected>>

GetFieldFilteringStrategy ==
  /\ pc = "called"
  /\ call.op = "getFieldFilteringStrategy"
  /\ result' = getFieldFilteringStrategy(call.column, call.fieldType)
  /\ pc' = "returned"
  /\ UNCHANGED <<call, frames, tableSchema, enhanced, rejected>>

CreateConstraintMetadata ==
  /\ pc = "called"
  /\ call.op = "createConstraintMetadata"
  /\ result' = createConstraintMetadata(call.constraintValues, call.enumData,
                                        call.column)
  /\ pc' = "returned"
  /\ UNCHANGED <<call, frames, tableSchema, enhanced, rejected>>

ExtractConstraintValues ==
  /\ pc = "called"
  /\ call.op = "extractConstraintValues"
  /\ result' = extractConstraintValues(call.checkClause)
  /\ pc' = "returned"
  /\ UNCHANGED <<call, frames, tableSchema, enhanced, rejected>>

GenerateErrorCodes ==
  /\ pc = "called"
  /\ call.op = "generateErrorCodes"
  /\ result' = generateErrorCodes(call.tableName, call.schema)
  /\ pc' = "returned"
  /\ UNCHANGED <<call, frames, tableSchema, enhanced, rejected>>

GetDropdownDisplayFields ==
  /\ pc = "called"
  /\ call.op = "getDropdownDisplayFields"
  /\ result' = getDropdownDisplayFields(call.referencedTableName,
                                        call.referencedSchema)
  /\ pc' = "returned"
  /\ UNCHANGED <<call, frames, tableSchema, enhanced, rejected>>

DetectBusinessRules ==
  /\ pc = "called"
  /\ call.op = "detectBusinessRules"
  /\ result' = detectBusinessRules(call.columns)
  /\ pc' = "returned"
  /\ UNCHANGED <<call, frames, tableSchema, enhanced, rejected>>

(***************************************************************************)
(* The asynchronous operations.  An invocation of getDatabaseSchema is a   *)
(* frame {table, awaiting, issued, outcome}: the query it awaits, the      *)
(* queries it has issued so far and the state of the promise it returned.  *)
(* Each action is the settling of one awaited query or promise together    *)
(* with the code that runs up to the next await.  Any query may be         *)
(* rejected by the database.                                               *)
(***************************************************************************)
QueryOrder ==
  <<"hasTable", "columns", "primaryKeys", "foreignKeys", "enumInfo",
    "checkConstraints">>

Pending == [js |-> "pending"]
Fulfilled(value) == [js |-> "fulfilled", value |-> value]
Rejected(message) == [js |-> "rejected", message |-> message]
Settled(promise) == promise.js # "pending"

Error(message) == [js |-> "error", message |-> message]

\* the reads of one call: its own, and per foreign-key column i the read of
\* the referenced schema and the read inside hasDropdownEndpoint
BaseRead == <<"base", 0>>
ReferencedRead(i) == <<"referenced", i>>
DropdownRead(i) == <<"dropdown", i>>

\* lines 7-9: getDatabaseSchema is entered and issues the existence check
StartRead(tableName) ==
  [table |-> tableName, awaiting |-> "hasTable", issued |-> <<"hasTable">>,
   outcome |-> Pending]

Issue(frame, query) ==
  [frame EXCEPT !.awaiting = query, !.issued = Append(@, query)]

Return(frame, value) ==
  [frame EXCEPT !.awaiting = "none", !.outcome = Fulfilled(value)]

\* a variant that asks for the columns whatever the existence check says
AfterExistenceCheckColumnsAnyway(frame, tableExists) ==
  IF ~tableExists THEN Return(Issue(frame, "columns"), JsNull)
  ELSE Issue(frame, "columns")

\* a variant that sends the five metadata queries together
AfterExistenceCheckAllAtOnce(frame, tableExists) ==
  IF ~tableExists THEN Return(frame, JsNull)
  ELSE [frame EXCEPT !.awaiting = "checkConstraints",
                     !.issued = QueryOrder]

\* lines 9-15
AfterExistenceCheck(frame, tableExists) ==
  IF ~tableExists THEN Return(frame, JsNull) ELSE Issue(frame, "columns")

\* a variant in which a read that has its last rows starts over
AfterMetadataQueryStartsOver(frame) ==
  LET k == CHOOSE i \in 1..Len(QueryOrder) : QueryOrder[i] = frame.awaiting
  IN IF k < Len(QueryOrder) THEN Issue(frame, QueryOrder[k + 1])
     ELSE Issue(frame, "hasTable")

\* lines 15-187: the next query in source order, or the schema after the last
AfterMetadataQuery(frame) ==
  LET k == CHOOSE i \in 1..Len(QueryOrder) : QueryOrder[i] = frame.awaiting
  IN IF k < Len(QueryOrder) THEN Issue(frame, QueryOrder[k + 1])
     ELSE Return(frame, DatabaseSchema(frame.table, Catalog[frame.table]))

\* a variant that issues the rejected query once more
AfterRejectionRetry(frame) == Issue(frame, frame.awaiting)

\* lines 188-193: the catch block of getDatabaseSchema
AfterRejection(frame) ==
  [frame EXCEPT !.awaiting = "none",
                !.outcome = Rejected("Failed to get schema for table "
                                       \o frame.table \o ": " \o QueryError)]

Rejection(id, tableName, query) ==
  [by |-> id, table |-> tableName, query |-> query]

CallGetDatabaseSchema ==
  /\ pc = "called"
  /\ call.op = "getDatabaseSchema"
  /\ frames' = (BaseRead :> StartRead(call.tableName))
  /\ pc' = "base"
  /\ UNCHANGED <<call, result, tableSchema, enhanced, rejected>>

\* lines 798-802
CallGetEnhancedSchema ==
  /\ pc = "called"
  /\ call.op = "getEnhancedSchema"
  /\ frames' = (BaseRead :> StartRead(call.tableName))
  /\ pc' = "base"
  /\ UNCHANGED <<call, result, tableSchema, enhanced, rejected>>

TableExistenceResolves(id) ==
  /\ frames[id].awaiting = "hasTable"
  /\ frames' = [frames EXCEPT
                  ![id] = AfterExistenceCheck(@, @.table \in DOMAIN Catalog)]
  /\ UNCHANGED <<call, pc, result, tableSchema, enhanced, rejected>>

MetadataQueryResolves(id) ==
  /\ frames[id].awaiting \notin {"none", "hasTable"}
  /\ frames' = [frames EXCEPT ![id] = AfterMetadataQuery(@)]
  /\ UNCHANGED <<call, pc, result, tableSchema, enhanced, rejected>>

QueryRejects(id) ==
  /\ frames[id].awaiting # "none"
  /\ frames' = [frames EXCEPT ![id] = AfterRejection(@)]
  /\ rejected' = rejected
       \cup {Rejection(id, frames[id].table, frames[id].awaiting)}
  /\ UNCHANGED <<call, pc, result, tableSchema, enhanced>>

\* the promise of a direct getDatabaseSchema call settles
GetDatabaseSchemaSettles ==
  /\ pc = "base"
  /\ call.op = "getDatabaseSchema"
  /\ Settled(frames[BaseRead].outcome)
  /\ IF frames[BaseRead].outcome.js = "fulfilled"
       THEN /\ result' = frames[BaseRead].outcome.value
            /\ pc' = "returned"
       ELSE /\ result' = Error(frames[BaseRead].outcome.message)
            /\ pc' = "thrown"
  /\ UNCHANGED <<call, frames, tableSchema, enhanced, rejected>>

\* lines 922-926: the catch block of getEnhancedSchema
EnhancedFailure(tableName, message) ==
  Error("Failed to get enhanced schema for table " \o tableName \o ": "
          \o message)

\* lines 802-811: the base schema arrives; null is thrown as 'not found',
\* otherwise detectUniqueConstraints issues its query
BaseSchemaRead ==
  /\ pc = "base"
  /\ call.op = "getEnhancedSchema"
  /\ Settled(frames[BaseRead].outcome)
  /\ LET outcome == frames[BaseRead].outcome
     IN IF outcome.js = "rejected"
          THEN /\ result' = EnhancedFailure(call.tableName, outcome.message)
               /\ pc' = "thrown"
               /\ UNCHANGED tableSchema
        ELSE IF ~Truthy(outcome.value)
          THEN /\ result' = EnhancedFailure(call.tableName,
                                            "Table " \o call.tableName
                                              \o " not found")
               /\ pc' = "thrown"
               /\ UNCHANGED tableSchema
        ELSE /\ tableSchema' = outcome.value
             /\ pc' = "uniqueConstraints"
             /\ UNCHANGED result
  /\ UNCHANGED <<call, frames, enhanced, rejected>>

\* lines 811-815 with 1140-1177: the unique-constraint query resolves and
\* detectForeignKeyReferences issues its query
UniqueConstraintsDetected ==
  /\ pc = "uniqueConstraints"
  /\ tableSchema' = Put(tableSchema, "uniqueConstraints",
                   UniqueConstraintsOf(Catalog[call.tableName].uniqueConstraints))
  /\ pc' = "foreignKeyReferences"
  /\ UNCHANGED <<call, result, frames, enhanced, rejected>>

\* lines 1179-1188: detectUniqueConstraints catches the rejection
UniqueConstraintsQueryRejects ==
  /\ pc = "uniqueConstraints"
  /\ tableSchema' = Put(tableSchema, "uniqueConstraints", NoUniqueConstraints)
  /\ rejected' = rejected
       \cup {Rejection(<<"unique", 0>>, call.tableName, "uniqueConstraints")}
  /\ pc' = "foreignKeyReferences"
  /\ UNCHANGED <<call, result, frames, enhanced>>

\* lines 816-824
WithConstraints(tableName, base, foreignKeyReferences) ==
  LET s1 == Put(base, "foreignKeyReferences", foreignKeyReferences)
      s2 == Put(s1, "businessRules", detectBusinessRules(s1.columns))
  IN Put(s2, "errorCodes", generateErrorCodes(tableName, s2))

\* lines 839-846 and 880: Promise.all starts every column's callback; a
\* foreign-key column enters getDatabaseSchema for the referenced table, any
\* other column is done
StartEnrichment(columns) ==
  /\ enhanced' = [i \in 1..Len(columns) |->
                    IF NeedsEnrichment(columns[i]) THEN Pending
                    ELSE Fulfilled(columns[i])]
  /\ frames' =
       [id \in {ReferencedRead(i) :
                  i \in {j \in 1..Len(columns) : NeedsEnrichment(columns[j])}}
          |-> StartRead(columns[id[2]].foreignKeyInfo.referencedTable)]
         @@ frames
  /\ pc' = "enrich"

\* lines 815-846 with 1222-1241: the inbound-reference query resolves
ForeignKeyReferencesDetected ==
  /\ pc = "foreignKeyReferences"
  /\ tableSchema' = WithConstraints(
                 call.tableName, tableSchema,
                 ForeignKeyReferencesOf(Catalog[call.tableName].references))
  /\ StartEnrichment(tableSchema.columns)
  /\ UNCHANGED <<call, result, rejected>>

\* lines 1242-1248: detectForeignKeyReferences catches the rejection
ForeignKeyReferencesQueryRejects ==
  /\ pc = "foreignKeyReferences"
  /\ tableSchema' = WithConstraints(call.tableName, tableSchema, << >>)
  /\ StartEnrichment(tableSchema.columns)
  /\ rejected' = rejected
       \cup {Rejection(<<"inbound", 0>>, call.tableName,
                       "foreignKeyReferences")}
  /\ UNCHANGED <<call, result>>

\* lines 846-847 and 864-876: the referenced schema arrives and
\* hasDropdownEndpoint reads the table again, or the read was rejected and
\* the column gets the fallback
ReferencedSchemaRead(i) ==
  /\ pc = "enrich"
  /\ ReferencedRead(i) \in DOMAIN frames
  /\ DropdownRead(i) \notin DOMAIN frames
  /\ enhanced[i] = Pending
  /\ Settled(frames[ReferencedRead(i)].outcome)
  /\ IF frames[ReferencedRead(i)].outcome.js = "fulfilled"
       THEN /\ frames' = (DropdownRead(i)
                            :> StartRead(frames[ReferencedRead(i)].table))
                           @@ frames
            /\ UNCHANGED enhanced
       ELSE /\ enhanced' = [enhanced EXCEPT
                              ![i] = Fulfilled(
                                       EnrichmentFallback(tableSchema.columns[i]))]
            /\ UNCHANGED frames
  /\ UNCHANGED <<call, pc, result, tableSchema, rejected>>

\* lines 847-862 with 641-656: hasDropdownEndpoint returns (false when its
\* read was rejected or found no table) and the column gets its dropdownInfo
DropdownEndpointChecked(i) ==
  /\ pc = "enrich"
  /\ DropdownRead(i) \in DOMAIN frames
  /\ enhanced[i] = Pending
  /\ Settled(frames[DropdownRead(i)].outcome)
  /\ LET again == frames[DropdownRead(i)].outcome
         hasDropdown == again.js = "fulfilled" /\ hasDisplayField(again.value)
     IN enhanced' = [enhanced EXCEPT
                       ![i] = Fulfilled(
                                Enriched(tableSchema.columns[i],
                                         frames[ReferencedRead(i)].outcome.value,
                                         hasDropdown))]
  /\ UNCHANGED <<call, pc, result, frames, tableSchema, rejected>>

\* lines 880-921: every callback is done
EnhancedSchemaReturns ==
  /\ pc = "enrich"
  /\ \A i \in DOMAIN enhanced : Settled(enhanced[i])
  /\ \E now \in Clock :
       LET enhancedColumns == [i \in DOMAIN enhanced |-> enhanced[i].value]
       IN result' = Put(Put(Put(tableSchema, "columns", enhancedColumns),
                            "capabilities", Capabilities(enhancedColumns)),
                        "enhancedMetadata",
                        [analyzedAt |-> now, version |-> "1.0.0"])
  /\ pc' = "returned"
  /\ UNCHANGED <<call, frames, tableSchema, enhanced, rejected>>

Next ==
  \/ DetermineFieldType
  \/ GenerateErrorCodes
  \/ GetDropdownDisplayFields
  \/ ExtractConstraintValues
  \/ CreateConstraintMetadata
  \/ GetFieldFilteringStrategy
  \/ DetectBusinessRules
  \/ CallGetDatabaseSchema
  \/ CallGetEnhancedSchema
  \/ \E id \in DOMAIN frames : TableExistenceResolves(id)
  \/ \E id \in DOMAIN frames : MetadataQueryResolves(id)
  \/ \E id \in DOMAIN frames : QueryRejects(id)
  \/ GetDatabaseSchemaSettles
  \/ BaseSchemaRead
  \/ UniqueConstraintsDetected
  \/ UniqueConstraintsQueryRejects
  \/ ForeignKeyReferencesDetected
  \/ ForeignKeyReferencesQueryRejects
  \/ \E i \in DOMAIN enhanced : ReferencedSchemaRead(i)
  \/ \E i \in DOMAIN enhanced : DropdownEndpointChecked(i)
  \/ EnhancedSchemaReturns

Spec == Init /\ [][Next]_vars

Returned(op) == pc = "returned" /\ call.op = op

(***************************************************************************)
(* C1. determineFieldType returns 'foreign-key-dropdown' for every column  *)
(* passed with isForeignKey = true, whatever its name (id and the audit    *)
(* names included), catalog type, udt name or enum flag.                   *)
(* The source decides id and the audit names before the foreign-key flag,  *)
(* so this statement is violated.                                          *)
(***************************************************************************)
C1_ForeignKeyAlwaysDropdown ==
  (Returned("determineFieldType") /\ call.isForeignKey)
    => result = "foreign-key-dropdown"

(***************************************************************************)
(* C1 as amended: for every column passed with isForeignKey = true whose   *)
(* lower-cased name is neither id nor one of the six audit names, the      *)
(* result is 'foreign-key-dropdown', whatever the catalog type, udt name   *)
(* or enum flag; a column named id is 'primary-key' and an audit-named     *)
(* column keeps its audit kind even when it is a foreign key.              *)
(***************************************************************************)
C1_ForeignKeyDropdownUnlessKeyOrAudit ==
  (Returned("determineFieldType") /\ call.isForeignKey)
    => LET n == toLowerCase(call.column.column_name)
       IN /\ n \notin ({"id"} \cup AuditNames) => result = "foreign-key-dropdown"
          /\ n = "id" => result = "primary-key"
          /\ n \in {"created_at", "updated_at", "deleted_at"}
               => result = "audit-timestamp"
          /\ n \in {"created_by", "updated_by", "deleted_by"}
               => result = "audit-user"

\* a foreign-key column with an enum domain and an array type, not named id
\* nor an audit name, classified as a dropdown
C1_Witness ==
  /\ Returned("determineFieldType")
  /\ call.isForeignKey
  /\ call.isEnum
  /\ call.column.column_name = "author_id"
  /\ call.column.data_type = "ARRAY"
  /\ result = "foreign-key-dropdown"

TextareaStrategy == [category |-> "text", filters |-> <<"contains", "fulltext">>]

\* the strategy-table entry the lookup stages (a) and (b) select, if any
SelectsTextarea(c) ==
  \/ c.fieldType = "textarea"
  \/ /\ ~HasKey(FIELD_FILTERING_STRATEGIES, c.fieldType)
     /\ MappedType(LowerOrEmpty(c.column, "data_type"),
                   LowerOrEmpty(c.column, "udt_name")) = "textarea"

C3_EnumPrecedesCheckConstraint ==
  (Returned("createConstraintMetadata")
     /\ HasEnumValues(call.enumData)
     /\ Truthy(call.constraintValues))
    => /\ result.type = "postgres_enum"
       /\ result.confidence = 100
       /\ result.source = "postgres_enum"
       /\ result.defaultValue = JsString(call.enumData.enum_values[1])
       /\ result.values = call.enumData.enum_values

(***************************************************************************)
(* C7. In every ConstraintMetadata produced by createConstraintMetadata    *)
(* the values list is empty only when the type is 'unknown': the types     *)
(* 'postgres_enum', 'check_constraint' and 'boolean' always carry a        *)
(* non-empty values list.                                                  *)
(* A boolean column without constraints gets type 'boolean' and no values: *)
(* violated.                                                               *)
(***************************************************************************)
C7_ValuesEmptyOnlyWhenUnknown ==
  Returned("createConstraintMetadata")
    => (result.values = <<>> => result.type = "unknown")

(***************************************************************************)
(* C8. In every ConstraintMetadata produced by createConstraintMetadata    *)
(* the (type, source, confidence) triple is one of                         *)
(* (postgres_enum, postgres_enum, 100), (check_constraint,                 *)
(* check_constraint, 95), (boolean, inference, 100), (unknown, inference,  *)
(* 0); a domain parsed from a check constraint is never reported with      *)
(* source 'inference'.                                                     *)
(* The source never hands the check constraint to getConstraintSource:     *)
(* violated.                                                               *)
(***************************************************************************)
C8_ConfidenceFollowsProvenance ==
  Returned("createConstraintMetadata")
    => /\ <<result.type, result.source, result.confidence>> \in
            { <<"postgres_enum", "postgres_enum", 100>>,
              <<"check_constraint", "check_constraint", 95>>,
              <<"boolean", "inference", 100>>,
              <<"unknown", "inference", 0>> }
       /\ result.type = "check_constraint" => result.source # "inference"

(***************************************************************************)
(* C4. extractConstraintValues recognises both variants of the 'equals any *)
(* of an array literal' shape: for a clause <col> = ANY (ARRAY['v1',...,   *)
(* 'vn']), with or without a type cast after the array literal, it returns *)
(* exactly [v1,...,vn] in source order with quotes and casts removed; in   *)
(* particular "status = ANY (ARRAY['a','b']::character varying[])" yields  *)
(* ["a","b"].                                                              *)
(* The source returns null when a cast follows an unparenthesised array    *)
(* literal, and leaves a quote on a literal cast to a type other than      *)
(* character varying: violated.                                            *)
(***************************************************************************)
C4_AnyArrayYieldsLiterals ==
  (Returned("extractConstraintValues")
     /\ call.shape \in {"any", "any_cast", "any_paren_cast"})
    => result = JsArray(call.literals)

(***************************************************************************)
(* C5. For every check clause of the membership-list shape                 *)
(* <col> IN (l1, ..., ln), extractConstraintValues returns the n literals  *)
(* in source order, each stripped of its surrounding quotes and of any     *)
(* ::type cast noise.                                                      *)
(* The membership-list branch strips quotes only: violated.                *)
(***************************************************************************)
C5_MembershipListYieldsLiterals ==
  (Returned("extractConstraintValues") /\ call.shape = "in")
    => result = JsArray(call.literals)

(***************************************************************************)
(* C6. generateErrorCodes never lets two sources collide on one key: each  *)
(* single-field unique constraint, each composite unique constraint, each  *)
(* inbound foreign-key reference and each business rule contributes its    *)
(* own key, so the map has exactly 2 + |singleField| + |composite| + (if   *)
(* any inbound reference: 1 + |foreignKeyReferences|) + |businessRules|    *)
(* entries.                                                                *)
(* Two inbound references from one table share the key                     *)
(* CANNOT_DELETE_HAS_<TABLE>: violated.                                    *)
(***************************************************************************)
ExpectedErrorCodeCount(schema) ==
  2 + Len(schema.uniqueConstraints.singleField)
    + Len(schema.uniqueConstraints.composite)
    + (IF Len(schema.foreignKeyReferences) > 0
         THEN 1 + Len(schema.foreignKeyReferences) ELSE 0)
    + Len(schema.businessRules)

C6_ErrorCodeKeysNeverCollide ==
  Returned("generateErrorCodes")
    => Cardinality(DOMAIN result) = ExpectedErrorCodeCount(call.schema)

(***************************************************************************)
(* C9. getDropdownDisplayFields lists the human-readable fields before the *)
(* key: the priority fields present in the referenced table (or the first  *)
(* non-key textual column) come first and the key column is appended after *)
(* them as the fallback; for a referenced table that has a name column the *)
(* first display field is name, not the key.                               *)
(* The source puts id in front of the list: violated.                      *)
(***************************************************************************)
C9_HumanReadableFieldsBeforeKey ==
  (Returned("getDropdownDisplayFields") /\ Truthy(call.referencedSchema))
    => /\ \A i \in 1..Len(result) : result[i] = "id" => i = Len(result)
       /\ HasColumn(call.referencedSchema.columns, "name")
            => result[1] = "name"

(***************************************************************************)
(* C10. For every referenced schema (null, an empty column list and a      *)
(* table with more than three priority fields included),                   *)
(* getDropdownDisplayFields returns a list of at least 1 and at most 3     *)
(* entries, without duplicates, that contains the key column id.           *)
(***************************************************************************)
C10_DisplayFieldsBoundedWithKey ==
  Returned("getDropdownDisplayFields")
    => /\ Len(result) >= 1
       /\ Len(result) <= 3
       /\ \A i, j \in 1..Len(result) : result[i] = result[j] => i = j
       /\ arrayIncludes(result, "id")

\* a referenced table with more than three priority fields: the list is cut
\* to three and still holds the key
C10_Witness ==
  /\ Returned("getDropdownDisplayFields")
  /\ Truthy(call.referencedSchema)
  /\ Len(AvailableFields(call.referencedSchema.columns)) > 3
  /\ Len(result) = 3
  /\ arrayIncludes(result, "id")


(***************************************************************************)
(* C14. determineFieldType applies its structural rules first-match-wins,  *)
(* whatever the catalog type and udt name: a column named id (in any       *)
(* letter case) is 'primary-key'; else a name in {created_at, updated_at,  *)
(* deleted_at} is 'audit-timestamp' and a name in {created_by, updated_by, *)
(* deleted_by} is 'audit-user'; else isForeignKey gives                    *)
(* 'foreign-key-dropdown'; else isEnum gives 'enum-select'.                *)
(***************************************************************************)
C14_StructuralRulesFirstMatch ==
  Returned("determineFieldType")
    => LET n == toLowerCase(call.column.column_name)
       IN IF n = "id" THEN result = "primary-key"
          ELSE IF n \in {"created_at", "updated_at", "deleted_at"}
            THEN result = "audit-timestamp"
          ELSE IF n \in {"created_by", "updated_by", "deleted_by"}
            THEN result = "audit-user"
          ELSE IF call.isForeignKey THEN result = "foreign-key-dropdown"
          ELSE IF call.isEnum THEN result = "enum-select"
          ELSE result \notin {"primary-key", "audit-timestamp", "audit-user",
                              "foreign-key-dropdown", "enum-select"}

\* every later rule applies as well (foreign key, enum domain, a catalog type
\* of its own) and the earliest one decides: an audit name in mixed case
C14_Witness ==
  /\ Returned("determineFieldType")
  /\ call.column.column_name = "Deleted_At"
  /\ call.column.data_type = "uuid"
  /\ call.isForeignKey
  /\ call.isEnum
  /\ result = "audit-timestamp"


\* the substring heuristics of stage (c) in their order: the substrings looked
\* for in the raw type and the strategy-table key each set selects
TypeHeuristics ==
  << << {"timestamp", "date"}, "timestamp" >>,
     << {"int", "numeric", "decimal"}, "number" >>,
     << {"varchar", "text", "char"}, "varchar" >>,
     << {"bool"}, "boolean" >>,
     << {"uuid"}, "uuid" >> >>

HeuristicHits(rawType) ==
  {i \in 1..Len(TypeHeuristics) :
     \E sub \in TypeHeuristics[i][1] : includes(rawType, sub)}

\* the kind the static type table assigns to data_type, else to udt_name; ""
\* when it knows neither
StaticKind(column) ==
  LET dataType == LowerOrEmpty(column, "data_type")
      udtName == LowerOrEmpty(column, "udt_name")
  IN IF HasKey(POSTGRES_TYPE_MAPPING, dataType)
       THEN Get(POSTGRES_TYPE_MAPPING, dataType)
     ELSE IF HasKey(POSTGRES_TYPE_MAPPING, udtName)
       THEN Get(POSTGRES_TYPE_MAPPING, udtName)
     ELSE ""

RuleOrder ==
  <<"date_not_future", "positive_number", "email_format", "url_format",
    "phone_format">>

PatternMatches(type, column) ==
  LET colName == toLowerCase(column.name)
      dataType == LowerOrEmpty(column, "type")
      tsType == column.tsType
  IN CASE type = "date_not_future" -> IsPastDate(colName, dataType, tsType)
       [] type = "positive_number" -> IsPositiveNumber(colName, dataType, tsType)
       [] type = "email_format" -> IsEmail(colName, dataType, tsType)
       [] type = "url_format" -> IsUrl(colName, dataType, tsType)
       [] type = "phone_format" -> IsPhone(colName, dataType, tsType)

RECURSIVE Concat(_)
Concat(lists) ==
  IF lists = <<>> THEN <<>> ELSE Head(lists) \o Concat(Tail(lists))

RuleTypes(rules) == [k \in 1..Len(rules) |-> rules[k].type]

(***************************************************************************)
(* C18. detectBusinessRules emits rules in column order and, within a      *)
(* column, one rule for every pattern that matches, in the fixed order     *)
(* date_not_future, positive_number, email_format, url_format,             *)
(* phone_format: the output is the concatenation over the input columns of *)
(* what each column yields when it is the only column, so a column's rules *)
(* depend neither on the other columns nor on earlier emissions.           *)
(***************************************************************************)
C18_RulesConcatenatePerColumn ==
  Returned("detectBusinessRules")
    => LET cols == call.columns
           own == [i \in 1..Len(cols) |-> detectBusinessRules(<<cols[i]>>)]
       IN /\ result = Concat(own)
          /\ \A i \in 1..Len(cols) :
               /\ RuleTypes(own[i])
                    = SelectSeq(RuleOrder,
                                LAMBDA t : PatternMatches(t, cols[i]))
               /\ \A k \in 1..Len(own[i]) : own[i][k].field = cols[i].name

\* two columns that both match the email pattern, the first one the url
\* pattern too: three rules, email_format emitted again for the second column
C18_Witness ==
  /\ Returned("detectBusinessRules")
  /\ Len(call.columns) = 2
  /\ call.columns[1].name = "email_link"
  /\ call.columns[2].name = "email"
  /\ RuleTypes(result) = <<"email_format", "url_format", "email_format">>
  /\ result[3].field = "email"


\* the getEnhancedSchema or getDatabaseSchema call has settled
SettledCall(op) == call.op = op /\ pc \in {"returned", "thrown"}

RejectedBy(id) == \E r \in rejected : r.by = id

(***************************************************************************)
(* C11. When the table is absent (and no query is rejected),               *)
(* getEnhancedSchema signals it by returning null, not by raising.         *)
(* The source throws 'Table <name> not found' and rethrows it from its     *)
(* catch block: violated.                                                  *)
(***************************************************************************)
C11_AbsentTableYieldsNull ==
  (SettledCall("getEnhancedSchema")
     /\ call.tableName \notin DOMAIN Catalog
     /\ rejected = {})
    => (pc = "returned" /\ result = JsNull)

(***************************************************************************)
(* C12. Catalog access failure is fatal for the table: when, during        *)
(* getEnhancedSchema(T), a query about T itself is rejected (existence     *)
(* check, columns, primary keys, foreign keys, enumerations, check         *)
(* constraints, unique constraints, inbound references), the call raises   *)
(* an error whose message names T and returns no schema.                   *)
(* detectUniqueConstraints and detectForeignKeyReferences catch the        *)
(* rejection of their query: violated.                                     *)
(***************************************************************************)
C12_AnyCatalogFailureIsFatal ==
  (SettledCall("getEnhancedSchema")
     /\ \E r \in rejected :
          r.by \in {BaseRead, <<"unique", 0>>, <<"inbound", 0>>})
    => (pc = "thrown" /\ includes(result.message, call.tableName))

\* no query kind twice in the list
IssuedOnce(issued) ==
  \A i, j \in 1..Len(issued) : issued[i] = issued[j] => i = j

(***************************************************************************)
(* C12 as amended: during getEnhancedSchema(T), a rejection of the         *)
(* existence check or of one of the five metadata queries of the base read *)
(* is fatal: the read issues nothing after the rejected query and issues   *)
(* no query twice, no further read or query is started, and the call       *)
(* raises 'Failed to get enhanced schema for table T: Failed to get schema *)
(* for table T: <cause>'.  A rejection of the unique-constraint query or   *)
(* of the inbound-reference query is not fatal: the call goes on with      *)
(* uniqueConstraints {singleField: [], composite: []}, respectively        *)
(* foreignKeyReferences [], and returns a schema carrying them.  No read   *)
(* issues a query twice.                                                   *)
(***************************************************************************)
C12_SchemaReadFailureFatalConstraintFailureSwallowed ==
  call.op = "getEnhancedSchema"
    => /\ \A id \in DOMAIN frames : IssuedOnce(frames[id].issued)
       /\ \A r \in rejected :
            r.by = BaseRead
              => /\ pc \in {"base", "thrown"}
                 /\ DOMAIN frames = {BaseRead}
                 /\ frames[BaseRead].awaiting = "none"
                 /\ frames[BaseRead].issued[Len(frames[BaseRead].issued)]
                      = r.query
                 /\ pc = "thrown"
                      => result =
                           Error("Failed to get enhanced schema for table "
                                   \o call.tableName
                                   \o ": Failed to get schema for table "
                                   \o call.tableName \o ": " \o QueryError)
       /\ (pc \in {"returned", "thrown"}
             /\ ~RejectedBy(BaseRead)
             /\ call.tableName \in DOMAIN Catalog)
            => /\ pc = "returned"
               /\ RejectedBy(<<"unique", 0>>)
                    => result.uniqueConstraints
                         = [singleField |-> << >>, composite |-> << >>]
               /\ RejectedBy(<<"inbound", 0>>)
                    => result.foreignKeyReferences = << >>

\* the foreign-key query of the base read of books is rejected and the call
\* has raised the error that names books
C12_Witness ==
  /\ call.op = "getEnhancedSchema"
  /\ call.tableName = "books"
  /\ pc = "thrown"
  /\ rejected = {Rejection(BaseRead, "books", "foreignKeys")}
  /\ includes(result.message, "books")

(***************************************************************************)
(* C16. getDatabaseSchema(name) for a table that does not exist returns    *)
(* null without raising and issues none of the column, primary-key,        *)
(* foreign-key, enumeration or check-constraint queries (the existence     *)
(* check having been answered); in every read, direct or nested, the       *)
(* existence check is the first query issued and a read of an absent table *)
(* issues nothing else.                                                    *)
(***************************************************************************)
C16_AbsentTableReadsNothing ==
  /\ \A id \in DOMAIN frames :
       /\ frames[id].issued[1] = "hasTable"
       /\ frames[id].table \notin DOMAIN Catalog
            => frames[id].issued = <<"hasTable">>
  /\ (SettledCall("getDatabaseSchema")
        /\ call.tableName \notin DOMAIN Catalog
        /\ rejected = {})
       => /\ pc = "returned"
          /\ result = JsNull
          /\ frames[BaseRead].issued = <<"hasTable">>

C16_Witness ==
  /\ Returned("getDatabaseSchema")
  /\ call.tableName = "ghosts"
  /\ rejected = {}
  /\ result = JsNull
  /\ frames[BaseRead].issued = <<"hasTable">>


\* the dropdownInfo a column gets when its enrichment has failed
FallbackInfo(referencedTable) ==
  [endpoint |-> "/" \o referencedTable \o "/dropdown",
   hasEndpoint |-> FALSE,
   displayFields |-> <<"id">>,
   referencedSchema |-> JsNull]

\* what a read of the table yields when no query of it is rejected
SchemaInCatalog(tableName) ==
  IF tableName \in DOMAIN Catalog
    THEN DatabaseSchema(tableName, Catalog[tableName])
    ELSE JsNull

(***************************************************************************)
(* C13. Foreign-key enrichment failures are isolated per column: if a read *)
(* of the referenced table of a foreign-key column c raises (the read of   *)
(* the referenced schema or the read inside hasDropdownEndpoint),          *)
(* getEnhancedSchema still returns a schema and c receives dropdownInfo    *)
(* {endpoint: '/<referencedTable>/dropdown', hasEndpoint: false,           *)
(* displayFields: ['id'], referencedSchema: null}.                         *)
(* When only the read inside hasDropdownEndpoint raises, the column keeps  *)
(* the referenced schema and its display fields: violated.                 *)
(***************************************************************************)
C13_AnyReferencedReadFailureYieldsFallback ==
  Returned("getEnhancedSchema")
    => \A i \in DOMAIN result.columns :
         (RejectedBy(ReferencedRead(i)) \/ RejectedBy(DropdownRead(i)))
           => result.columns[i].dropdownInfo
                = FallbackInfo(tableSchema.columns[i].foreignKeyInfo
                                 .referencedTable)

(***************************************************************************)
(* C13 as amended: no rejected read of a referenced table makes            *)
(* getEnhancedSchema raise, and each column of the result depends on the   *)
(* reads of its own referenced table only.  A column that is no foreign    *)
(* key is the column of the base schema.  A foreign-key column c whose     *)
(* referenced-schema read (line 846) is rejected is the base column plus   *)
(* dropdownInfo {endpoint: '/<referencedTable>/dropdown', hasEndpoint:     *)
(* false, displayFields: ['id'], referencedSchema: null}.  Otherwise c     *)
(* carries the referenced schema (null for an absent table) and the        *)
(* display fields derived from it, and hasEndpoint is false when the       *)
(* second read, inside hasDropdownEndpoint, is rejected, else tells        *)
(* whether the referenced table has one of name, title, first_name,        *)
(* username, email.                                                        *)
(***************************************************************************)
C13_EnrichmentFailureIsolated ==
  /\ (call.op = "getEnhancedSchema" /\ pc = "thrown") => RejectedBy(BaseRead)
       \/ call.tableName \notin DOMAIN Catalog
  /\ Returned("getEnhancedSchema")
       => /\ Len(result.columns) = Len(tableSchema.columns)
          /\ \A i \in DOMAIN result.columns :
               LET base == tableSchema.columns[i]
                   target == base.foreignKeyInfo.referencedTable
                   referenced == SchemaInCatalog(target)
               IN IF ~base.isForeignKey THEN result.columns[i] = base
                  ELSE /\ [k \in DOMAIN base |-> result.columns[i][k]] = base
                       /\ DOMAIN result.columns[i]
                            = DOMAIN base \cup {"dropdownInfo"}
                       /\ result.columns[i].dropdownInfo =
                            IF RejectedBy(ReferencedRead(i))
                              THEN FallbackInfo(target)
                            ELSE [endpoint |-> "/" \o target \o "/dropdown",
                                  hasEndpoint |->
                                    (~RejectedBy(DropdownRead(i))
                                       /\ hasDisplayField(referenced)),
                                  displayFields |->
                                    getDropdownDisplayFields(target,
                                                             referenced),
                                  referencedSchema |-> referenced]

\* books: the read of categories for category_id was rejected, the column has
\* the fallback, and author_id beside it has the schema of authors
C13_Witness ==
  /\ Returned("getEnhancedSchema")
  /\ call.tableName = "books"
  /\ rejected = {Rejection(ReferencedRead(4), "categories", "primaryKeys")}
  /\ result.columns[4].dropdownInfo = FallbackInfo("categories")
  /\ result.columns[3].dropdownInfo.hasEndpoint
  /\ result.columns[3].dropdownInfo.referencedSchema
       = SchemaInCatalog("authors")


\* the tables the foreign keys of a table point at, and the tables whose
\* foreign keys lead back to themselves
ReferencedTables(tableName) ==
  IF tableName \in DOMAIN Catalog
    THEN {Catalog[tableName].foreignKeys[i].foreign_table_name :
            i \in 1..Len(Catalog[tableName].foreignKeys)}
    ELSE {}

RECURSIVE ReachableWithin(_, _)
ReachableWithin(tables, steps) ==
  IF steps = 0 THEN tables
  ELSE ReachableWithin(
         tables \cup UNION {ReferencedTables(t) : t \in tables}, steps - 1)

OnForeignKeyCycle(tableName) ==
  tableName \in ReachableWithin(ReferencedTables(tableName),
                                Cardinality(DOMAIN Catalog))

(***************************************************************************)
(* C20. Foreign-key enrichment recurses into referenced-table reads        *)
(* without cycle or depth protection, so for a table whose foreign keys    *)
(* are self-referencing or mutually referencing one getEnhancedSchema call *)
(* recurses without bound: with no query failing to cut the recursion      *)
(* short, such a call never returns.                                       *)
(* A referenced table is read with getDatabaseSchema, which does not       *)
(* enrich: the call returns after three reads.  Violated.                  *)
(***************************************************************************)
C20_CyclicEnrichmentNeverReturns ==
  (call.op = "getEnhancedSchema"
     /\ OnForeignKeyCycle(call.tableName)
     /\ rejected = {})
    => pc # "returned"

ForeignKeyColumnCount(tableName) ==
  IF tableName \in DOMAIN Catalog
    THEN Cardinality({Catalog[tableName].foreignKeys[i].column_name :
                        i \in 1..Len(Catalog[tableName].foreignKeys)})
    ELSE 0

RECURSIVE IssuedBy(_)
IssuedBy(ids) ==
  IF ids = {} THEN 0
  ELSE LET id == CHOOSE x \in ids : TRUE
       IN Len(frames[id].issued) + IssuedBy(ids \ {id})

\* the awaits of getEnhancedSchema in source order
AwaitRank ==
  CASE pc = "called" -> 0
    [] pc = "base" -> 1
    [] pc = "uniqueConstraints" -> 2
    [] pc = "foreignKeyReferences" -> 3
    [] pc = "enrich" -> 4
    [] pc \in {"returned", "thrown"} -> 5

\* the work done so far: awaits passed, reads started, queries issued, reads
\* and column callbacks settled
WorkDone ==
  AwaitRank + Cardinality(DOMAIN frames) + IssuedBy(DOMAIN frames)
    + Cardinality({id \in DOMAIN frames : Settled(frames[id].outcome)})
    + Cardinality({i \in DOMAIN enhanced : Settled(enhanced[i])})

\* the call can take a step: it has yet to start, a query is in flight (and
\* will resolve or be rejected), or the promise an await stands at has settled
CanStep ==
  \/ pc \in {"called", "uniqueConstraints", "foreignKeyReferences"}
  \/ \E id \in DOMAIN frames : frames[id].awaiting # "none"
  \/ pc = "base" /\ Settled(frames[BaseRead].outcome)
  \/ pc = "enrich" /\ \A i \in DOMAIN enhanced : Settled(enhanced[i])
  \/ /\ pc = "enrich"
     /\ \E i \in DOMAIN enhanced :
          /\ enhanced[i] = Pending
          /\ IF DropdownRead(i) \in DOMAIN frames
               THEN Settled(frames[DropdownRead(i)].outcome)
               ELSE Settled(frames[ReferencedRead(i)].outcome)

ReadsBounded ==
  LET k == ForeignKeyColumnCount(call.tableName)
      reads == 1 + 2 * k
  IN /\ Cardinality(DOMAIN frames) <= reads
     /\ \A id \in DOMAIN frames : Len(frames[id].issued) <= Len(QueryOrder)
     /\ (pc = "returned" /\ rejected = {})
          => Cardinality(DOMAIN frames) = reads
     /\ WorkDone <= 5 + reads * (Len(QueryOrder) + 2) + Len(enhanced)
     /\ pc \notin {"returned", "thrown"} => CanStep

(***************************************************************************)
(* C20 as amended: foreign-key enrichment does not recurse.  One           *)
(* getEnhancedSchema call on a table with k foreign-key columns, whether   *)
(* they are self-referencing, mutually referencing or neither, starts at   *)
(* most 1 + 2k table reads (exactly that many when it returns with no      *)
(* query rejected), each of at most six queries; every step of the call    *)
(* adds to a bounded amount of work and a call that has not settled can    *)
(* always take a step, so the call terminates.                             *)
(***************************************************************************)
C20_ReadsBoundedAndCallTerminates ==
  /\ [](call.op = "getEnhancedSchema" => ReadsBounded)
  /\ [][call.op = "getEnhancedSchema" => WorkDone' > WorkDone]_vars

\* the self-referencing table categories: the call has returned after its own
\* read and the two reads of categories for parent_id
C20_Witness ==
  /\ Returned("getEnhancedSchema")
  /\ call.tableName = "categories"
  /\ OnForeignKeyCycle("categories")
  /\ rejected = {}
  /\ DOMAIN frames = {BaseRead, ReferencedRead(3), DropdownRead(3)}
  /\ \A id \in DOMAIN frames : frames[id].table = "categories"


\* a column of a textual catalog type, reported with the udt name the catalog
\* gives such a type (or none)
TextualColumn(column) ==
  /\ toLowerCase(column.data_type)
       \in {"character varying", "varchar", "character", "char", "text"}
  /\ "udt_name" \in DOMAIN column
       => column.udt_name \in {"varchar", "bpchar", "text"}

\* the pattern sets, by position in FIELD_NAME_PATTERNS, one of whose keywords
\* the lower-cased name contains
PatternSetsMatching(columnName) ==
  {i \in 1..Len(FIELD_NAME_PATTERNS) :
     \E j \in 1..Len(FIELD_NAME_PATTERNS[i][2]) :
        includes(toLowerCase(columnName), FIELD_NAME_PATTERNS[i][2][j])}

ColumnNamed(columns, name) ==
  columns[CHOOSE i \in DOMAIN columns : columns[i].name = name]

(***************************************************************************)
(* C17. For the table authors(id uuid pk, name varchar not null, email     *)
(* varchar unique, bio text, created_at timestamp) without foreign keys,   *)
(* getEnhancedSchema (no query being rejected) classifies name as the      *)
(* plain textual kind 'varchar', email as 'email' with an error-code key   *)
(* DUPLICATE_EMAIL and a business rule of type email_format, bio as        *)
(* 'textarea' whose filtering strategy allows exactly contains and         *)
(* fulltext, and created_at as 'audit-timestamp'.  More generally          *)
(* determineFieldType gives a textual column that is not id, an audit      *)
(* name, a foreign key or an enum the kind of the first pattern set, in    *)
(* table order, one of whose keywords its name contains, and the base      *)
(* textual kind of its catalog type when no set matches.                   *)
(***************************************************************************)
C17_AuthorsClassified ==
  /\ (Returned("getEnhancedSchema")
        /\ call.tableName = "authors"
        /\ rejected = {})
       => LET columns == result.columns
          IN /\ [i \in DOMAIN columns |-> columns[i].name]
                  = <<"id", "name", "email", "bio", "created_at">>
             /\ ColumnNamed(columns, "name").fieldType = "varchar"
             /\ ColumnNamed(columns, "email").fieldType = "email"
             /\ "DUPLICATE_EMAIL" \in DOMAIN result.errorCodes
             /\ \E k \in DOMAIN result.businessRules :
                  /\ result.businessRules[k].field = "email"
                  /\ result.businessRules[k].type = "email_format"
             /\ ColumnNamed(columns, "bio").fieldType = "textarea"
             /\ ColumnNamed(columns, "bio").filteringStrategy.filters
                  = <<"contains", "fulltext">>
             /\ ColumnNamed(columns, "created_at").fieldType
                  = "audit-timestamp"
  /\ (Returned("determineFieldType")
        /\ TextualColumn(call.column)
        /\ toLowerCase(call.column.column_name) \notin ({"id"} \cup AuditNames)
        /\ ~call.isForeignKey
        /\ ~call.isEnum)
       => LET sets == PatternSetsMatching(call.column.column_name)
              first == CHOOSE i \in sets : \A j \in sets : i <= j
          IN result = IF sets = {}
                        THEN Get(POSTGRES_TYPE_MAPPING,
                                 toLowerCase(call.column.data_type))
                        ELSE FIELD_NAME_PATTERNS[first][1]

\* the enhanced schema of authors with the email column classified and its
\* duplicate error code generated
C17_Witness ==
  /\ Returned("getEnhancedSchema")
  /\ call.tableName = "authors"
  /\ rejected = {}
  /\ ColumnNamed(result.columns, "email").fieldType = "email"
  /\ result.errorCodes["DUPLICATE_EMAIL"] = "AUTHORS_DUPLICATE_EMAIL"
  /\ result.capabilities.foreignKeyCount = 0


\* the five metadata queries of getDatabaseSchema, without the existence check
MetadataQueries == Tail(QueryOrder)

IssuedQueries(frame) == {frame.issued[k] : k \in 1..Len(frame.issued)}

(***************************************************************************)
(* C21. Within one getDatabaseSchema pass the column, primary-key,         *)
(* foreign-key, enumeration and check-constraint queries are issued        *)
(* concurrently: once the column query is out, the other four are out as   *)
(* well.  The source awaits each query before it sends the next: violated. *)
(***************************************************************************)
C21_MetadataQueriesIssuedTogether ==
  \A id \in DOMAIN frames :
    "columns" \in IssuedQueries(frames[id])
      => \A k \in 1..Len(MetadataQueries) :
           MetadataQueries[k] \in IssuedQueries(frames[id])

\* one pass as the source runs it: the queries sent so far are an initial
\* part of the source order, only the last of them can be unanswered, the
\* schema is returned only after all five were answered, and a rejected query
\* is the last one the pass sent
SequentialPass(id) ==
  LET frame == frames[id]
      n == Len(frame.issued)
  IN /\ n \in 1..Len(QueryOrder)
     /\ frame.issued = SubSeq(QueryOrder, 1, n)
     /\ frame.awaiting \in {"none", frame.issued[n]}
     /\ frame.awaiting = "none" <=> Settled(frame.outcome)
     /\ (frame.outcome.js = "fulfilled" /\ Truthy(frame.outcome.value))
          => /\ n = Len(QueryOrder)
             /\ ~RejectedBy(id)
             /\ Len(frame.outcome.value.columns)
                  = Len(Catalog[frame.table].columns)
     /\ frame.outcome.js = "rejected"
          <=> \E r \in rejected : r.by = id /\ r.query = frame.issued[n]

\* a step sends at most one query of a pass, and sends it only as the answer
\* to the query before it arrives
OneQueryAtATime(id) ==
  (id \in DOMAIN frames /\ frames'[id] # frames[id])
    => /\ Len(frames'[id].issued) <= Len(frames[id].issued) + 1
       /\ Len(frames'[id].issued) > Len(frames[id].issued)
            => /\ frames[id].awaiting
                    = frames[id].issued[Len(frames[id].issued)]
               /\ frames'[id].awaiting
                    = frames'[id].issued[Len(frames'[id].issued)]
               /\ rejected' = rejected

(***************************************************************************)
(* C21 as amended: within one getDatabaseSchema pass the existence check   *)
(* and the column, primary-key, foreign-key, enumeration and               *)
(* check-constraint queries are issued one at a time in that order, each   *)
(* only after the one before it has been answered, so at most one query of *)
(* a pass is in flight; column processing happens only after all five were *)
(* answered, and a failure of any one ends the pass with no later query    *)
(* sent.                                                                   *)
(***************************************************************************)
C21_MetadataQueriesIssuedInSequence ==
  /\ [](\A id \in DOMAIN frames : SequentialPass(id))
  /\ [][\A id \in DOMAIN frames : OneQueryAtATime(id)]_vars

\* the pass over tickets waits for its foreign-key rows and has not yet asked
\* for enumerations or check constraints
C21_Witness ==
  /\ call.op = "getDatabaseSchema"
  /\ call.tableName = "tickets"
  /\ frames # << >>
  /\ frames[BaseRead].awaiting = "foreignKeys"
  /\ frames[BaseRead].issued
       = <<"hasTable", "columns", "primaryKeys", "foreignKeys">>
  /\ frames[BaseRead].outcome = Pending


\* the object has the property (own, enumerable)
HasProperty(obj, key) == key \in DOMAIN obj

\* the catalog lists a foreign key on the column
CatalogForeignKey(tableName, columnName) ==
  \E k \in 1..Len(Catalog[tableName].foreignKeys) :
    Catalog[tableName].foreignKeys[k].column_name = columnName

(***************************************************************************)
(* C22. In the result of getEnhancedSchema a column carries dropdownInfo   *)
(* if and only if it is classified 'foreign-key-dropdown'.  A foreign key  *)
(* named created_by is classified 'audit-user' and is enriched all the     *)
(* same: violated.                                                         *)
(***************************************************************************)
C22_DropdownInfoIffDropdownKind ==
  Returned("getEnhancedSchema")
    => \A i \in 1..Len(result.columns) :
         HasProperty(result.columns[i], "dropdownInfo")
           <=> result.columns[i].fieldType = "foreign-key-dropdown"

(***************************************************************************)
(* C22 as amended: in the result of getEnhancedSchema a column carries     *)
(* dropdownInfo if and only if the catalog lists a foreign key on it,      *)
(* whatever its classification; the referenced table is read for exactly   *)
(* those columns, and it is the table the foreign key names.  Every column *)
(* classified 'foreign-key-dropdown' is among them; a foreign key named id *)
(* or by an audit name is among them too, under its own classification.    *)
(***************************************************************************)
C22_DropdownInfoIffForeignKey ==
  /\ (call.op = "getEnhancedSchema" /\ pc \in {"enrich", "returned"})
       => \A i \in 1..Len(tableSchema.columns) :
            LET column == tableSchema.columns[i]
            IN /\ ReferencedRead(i) \in DOMAIN frames
                    <=> CatalogForeignKey(call.tableName, column.name)
               /\ ReferencedRead(i) \in DOMAIN frames
                    => frames[ReferencedRead(i)].table
                         = column.foreignKeyInfo.referencedTable
  /\ Returned("getEnhancedSchema")
       => \A i \in 1..Len(result.columns) :
            LET column == result.columns[i]
            IN /\ HasProperty(column, "dropdownInfo")
                    <=> CatalogForeignKey(call.tableName, column.name)
               /\ column.fieldType = "foreign-key-dropdown"
                    => HasProperty(column, "dropdownInfo")

\* tickets.created_by references authors: it is classified 'audit-user' and
\* carries the dropdownInfo made from the authors table
C22_Witness ==
  /\ Returned("getEnhancedSchema")
  /\ call.tableName = "tickets"
  /\ rejected = {}
  /\ result.columns[4].name = "created_by"
  /\ result.columns[4].fieldType = "audit-user"
  /\ HasProperty(result.columns[4], "dropdownInfo")
  /\ result.columns[4].dropdownInfo.referencedSchema.tableName = "authors"
  /\ ~HasProperty(result.columns[2], "dropdownInfo")


\* a determineFieldType call whose column no structural rule decides
PastStructuralRules ==
  /\ Returned("determineFieldType")
  /\ toLowerCase(call.column.column_name) \notin {"id"} \cup AuditNames
  /\ ~call.isForeignKey
  /\ ~call.isEnum

(***************************************************************************)
(* C23. A column that is not named id or an audit name, is not a foreign   *)
(* key and is not enum-like, and whose underlying type descriptor name     *)
(* carries the array prefix '_' (data_type 'ARRAY', udt_name '_text'), is  *)
(* classified 'array'.  The source tests for arrays only inside the branch *)
(* taken when the static type table knows the lower-cased data_type, and   *)
(* the table has no entry 'array': violated.                               *)
(***************************************************************************)
C23_ArrayPrefixClassifiedArray ==
  (PastStructuralRules
     /\ call.column.data_type = "ARRAY"
     /\ HasProperty(call.column, "udt_name")
     /\ CharAt(call.column.udt_name, 1) = "_")
    => result = "array"


\* catalog types of the inputs that are not character types: numeric,
\* temporal, boolean, json, uuid, network, geometric, array and user-defined
NonTextualDataTypes ==
  {"integer", "bigint", "numeric", "timestamp without time zone", "date",
   "boolean", "uuid", "jsonb", "interval", "inet", "point", "USER-DEFINED",
   "ARRAY"}

\* the names no structural rule decides
PlainNames ==
  {name \in ColumnNames : toLowerCase(name) \notin {"id"} \cup AuditNames}

Renamed(column, name) == [column EXCEPT !.column_name = name]

(***************************************************************************)
(* C24. Name patterns never override a catalog-type decision for           *)
(* non-textual types: two columns that differ only in name (neither named  *)
(* id or an audit name, neither a foreign key nor enum-like) and whose     *)
(* catalog type is non-textual get the same kind from determineFieldType.  *)
(* For 'ARRAY' and 'USER-DEFINED' the lower-cased data_type is not in the  *)
(* static table and the name patterns decide: violated.                    *)
(***************************************************************************)
C24_NameNeverOverridesNonTextualType ==
  (PastStructuralRules /\ call.column.data_type \in NonTextualDataTypes)
    => \A name \in PlainNames :
         determineFieldType(Renamed(call.column, name), FALSE, FALSE) = result


\* The strategy is one of the objects held by the module-level table.
\* getFieldFilteringStrategy creates an object in one place only, the
\* 'unknown' literal of its last line, and that literal equals no entry of
\* the table; every other return hands out the entry itself, not a copy.
TableOwned(strategy) ==
  \E k \in 1..Len(FIELD_FILTERING_STRATEGIES) :
    FIELD_FILTERING_STRATEGIES[k][2] = strategy

(***************************************************************************)
(* C25. Separate classification requests share no mutable state: no        *)
(* filteringStrategy reachable from the schema returned by                 *)
(* getDatabaseSchema is an object that another column or another call's    *)
(* result can reach.  Every strategy but 'unknown' is the entry of the     *)
(* module-level FIELD_FILTERING_STRATEGIES itself: violated.               *)
(***************************************************************************)
C25_ResultsShareNoStrategyObject ==
  (Returned("getDatabaseSchema") /\ Truthy(result))
    => \A i \in 1..Len(result.columns) :
         ~TableOwned(result.columns[i].filteringStrategy)


\* the descriptor without the named attribute
Without(obj, key) == [k \in DOMAIN obj \ {key} |-> obj[k]]

\* the columns as the base read of the call returned them
BaseColumns == frames[BaseRead].outcome.value.columns

\* an enhanced descriptor against its base descriptor
LayeredOn(column, base) ==
  IF base.isForeignKey
    THEN /\ HasProperty(column, "dropdownInfo")
         /\ Without(column, "dropdownInfo") = base
    ELSE column = base

(***************************************************************************)
(* C26. Foreign-key enrichment in getEnhancedSchema never changes a column *)
(* descriptor produced by getDatabaseSchema: each enriched foreign-key     *)
(* column equals its base descriptor in every attribute and has            *)
(* dropdownInfo in addition, every other column is returned as it was, the *)
(* columns of the result are in catalog order whatever order the reads of  *)
(* the referenced tables complete in, and businessRules and errorCodes are *)
(* the ones computed before enrichment.  While enrichment runs, the base   *)
(* read's result and the schema under construction do not change.          *)
(***************************************************************************)
C26_EnrichmentLayersOnBaseDescriptors ==
  /\ [](/\ (call.op = "getEnhancedSchema" /\ pc = "enrich")
             => /\ tableSchema.columns = BaseColumns
                /\ Len(enhanced) = Len(BaseColumns)
                /\ \A i \in 1..Len(enhanced) :
                     Settled(enhanced[i])
                       => LayeredOn(enhanced[i].value, BaseColumns[i])
        /\ Returned("getEnhancedSchema")
             => /\ Len(result.columns) = Len(BaseColumns)
                /\ \A i \in 1..Len(result.columns) :
                     /\ LayeredOn(result.columns[i], BaseColumns[i])
                     /\ result.columns[i].name
                          = Catalog[call.tableName].columns[i].column_name
                /\ result.businessRules = detectBusinessRules(BaseColumns)
                /\ result.businessRules = tableSchema.businessRules
                /\ result.errorCodes = tableSchema.errorCodes)
  /\ [][(call.op = "getEnhancedSchema" /\ pc = "enrich")
          => /\ tableSchema' = tableSchema
             /\ frames'[BaseRead] = frames[BaseRead]]_vars

\* books has returned with both foreign keys enriched, the second from a
\* referenced table that has no display name
C26_Witness ==
  /\ Returned("getEnhancedSchema")
  /\ call.tableName = "books"
  /\ rejected = {}
  /\ HasProperty(result.columns[3], "dropdownInfo")
  /\ HasProperty(result.columns[4], "dropdownInfo")
  /\ Without(result.columns[3], "dropdownInfo") = BaseColumns[3]
  /\ result.columns[2] = BaseColumns[2]
  /\ result.columns[3].dropdownInfo.hasEndpoint
  /\ ~result.columns[4].dropdownInfo.hasEndpoint


(***************************************************************************)
(* C27. Every column that getDatabaseSchema classifies 'enum-select' has a *)
(* constraintMetadata that describes a real domain: type 'postgres_enum'   *)
(* or 'check_constraint', confidence at least 95, values not empty; and a  *)
(* column whose check clause yields an empty list of literals is not       *)
(* classified 'enum-select'.  The enum flag is !!constraintValues, which   *)
(* is true of the empty list, while the metadata tests its length:         *)
(* violated.                                                               *)
(***************************************************************************)
C27_EnumSelectHasRealDomain ==
  (Returned("getDatabaseSchema") /\ Truthy(result))
    => \A i \in 1..Len(result.columns) :
         LET column == result.columns[i]
         IN /\ column.fieldType = "enum-select"
                 => /\ column.constraintMetadata.type
                         \in {"postgres_enum", "check_constraint"}
                    /\ column.constraintMetadata.confidence >= 95
                    /\ column.constraintMetadata.values # << >>
            /\ column.constraintValues = JsArray(<< >>)
                 => column.fieldType # "enum-select"


(***************************************************************************)
(* C28. The capabilities summary of getEnhancedSchema is self-consistent:  *)
(* foreignKeyCount is the number of dropdownFields and enumCount is the    *)
(* number of selectFields.  The counts go by isForeignKey and isEnum, the  *)
(* lists by fieldType; a foreign key with an audit name, or one with an    *)
(* enum domain, is counted and not listed: violated.                       *)
(***************************************************************************)
C28_CountsEqualListLengths ==
  Returned("getEnhancedSchema")
    => /\ result.capabilities.foreignKeyCount
            = Len(result.capabilities.dropdownFields)
       /\ result.capabilities.enumCount
            = Len(result.capabilities.selectFields)

\* id or an audit name, which determineFieldType decides before anything else
StructuralName(name) == toLowerCase(name) \in {"id"} \cup AuditNames

(***************************************************************************)
(* C28 as amended: foreignKeyCount is the number of foreign-key columns    *)
(* and enumCount the number of enum-like columns; dropdownFields lists, in *)
(* column order, the foreign-key columns not named id or by an audit name, *)
(* and selectFields the enum-like columns that are neither so named nor    *)
(* foreign keys.  So the lists are never longer than the counts, and are   *)
(* shorter exactly when a counted column is classified by its name or, for *)
(* an enum-like column, as a foreign key.                                  *)
(***************************************************************************)
C28_CountsByFlagListsByKind ==
  Returned("getEnhancedSchema")
    => LET columns == result.columns
           caps == result.capabilities
           IsDropdown(col) == col.isForeignKey /\ ~StructuralName(col.name)
           IsSelect(col) ==
             col.isEnum /\ ~col.isForeignKey /\ ~StructuralName(col.name)
       IN /\ caps.foreignKeyCount
               = Cardinality({i \in 1..Len(columns) :
                                CatalogForeignKey(call.tableName,
                                                  columns[i].name)})
          /\ caps.enumCount
               = Cardinality({i \in 1..Len(columns) : columns[i].isEnum})
          /\ caps.dropdownFields = SelectSeq(columns, IsDropdown)
          /\ caps.selectFields = SelectSeq(columns, IsSelect)
          /\ Len(caps.dropdownFields) <= caps.foreignKeyCount
          /\ Len(caps.selectFields) <= caps.enumCount
          /\ caps.hasForeignKeys <=> caps.foreignKeyCount > 0
          /\ caps.hasEnums <=> caps.enumCount > 0

\* tickets has two foreign keys; created_by is classified by its name and is
\* not a dropdown field
C28_Witness ==
  /\ Returned("getEnhancedSchema")
  /\ call.tableName = "tickets"
  /\ result.capabilities.foreignKeyCount = 2
  /\ Len(result.capabilities.dropdownFields) = 1
  /\ result.capabilities.dropdownFields[1].name = "owner_id"
  /\ result.capabilities.enumCount = 1
  /\ Len(result.capabilities.selectFields) = 1


(***************************************************************************)
(* C29. When the referenced table was read, every entry of                 *)
(* dropdownInfo.displayFields names a column of the referenced table, also *)
(* when the foreign key references a key column that is not named id.      *)
(* getDropdownDisplayFields puts 'id' in front whenever it is not among    *)
(* the fields found, whether or not the table has such a column: violated. *)
(***************************************************************************)
C29_DisplayFieldsExistInReferencedTable ==
  Returned("getEnhancedSchema")
    => \A i \in 1..Len(result.columns) :
         (/\ HasProperty(result.columns[i], "dropdownInfo")
          /\ Truthy(result.columns[i].dropdownInfo.referencedSchema))
           => LET info == result.columns[i].dropdownInfo
              IN \A k \in 1..Len(info.displayFields) :
                   HasColumn(info.referencedSchema.columns,
                             info.displayFields[k])


\* the numeric catalog types of the static table
NumericDataTypes ==
  {"smallint", "integer", "bigint", "decimal", "numeric", "real",
   "double precision", "serial", "bigserial", "smallserial"}

(***************************************************************************)
(* C30. getFieldFilteringStrategy returns a strategy of category 'numeric' *)
(* only for columns of a numeric catalog type: a column of a non-numeric   *)
(* type the static table knows (interval, point, inet, jsonb), passed with *)
(* the kind the table gives it, does not get the numeric predicates.  No   *)
(* strategy is registered for those kinds and the substring test           *)
(* includes('int') accepts 'interval' and 'point': violated.               *)
(***************************************************************************)
C30_NumericStrategyOnlyForNumericTypes ==
  (/\ Returned("getFieldFilteringStrategy")
   /\ HasProperty(call.column, "data_type")
   /\ HasKey(POSTGRES_TYPE_MAPPING, call.column.data_type)
   /\ call.column.data_type \notin NumericDataTypes
   /\ call.fieldType = Get(POSTGRES_TYPE_MAPPING, call.column.data_type))
    => result.category # "numeric"

====
